---- MODULE Spec2Model ----
(***************************************************************************)
(* A model of activityio's FIT decoder (activityio/fit/_protocol.py):      *)
(* the file header parser, the message header decoder, definition and      *)
(* data messages, the two-pass decode() of a data message and the          *)
(* generator gen_fit_messages that drives them.                            *)
(*                                                                         *)
(* The file is an input.  Its 12-byte header is fixed in the initial       *)
(* state; the bytes of each message are chosen when the decoder reads      *)
(* them (the decoder is single pass, so this is the same as fixing the     *)
(* whole file beforehand).  The file is assumed to hold every byte the     *)
(* decoder asks for (no short read at end of file).  Fields of the 32-bit  *)
(* and float base types are left out of the inputs.                        *)
(*                                                                         *)
(* Python values are tagged records: None, int, bytes, str and float (an   *)
(* exact fraction num/den, den > 0, in lowest terms).                      *)
(*                                                                         *)
(* Specifications:                                                         *)
(*   Spec          one decode session over one file;                       *)
(*   LiveSpec      the same with a consumer that keeps iterating;          *)
(*   SpecAgain     a second session over the file of an ended first one;   *)
(*   SpecSessions  two sessions whose steps interleave;                    *)
(*   SpecPure      calls of BaseType.parse and of the header decoder;      *)
(*   SpecCalls     single calls of other functions;                        *)
(*   SpecRecords   a session whose consumer is fit gen_records;            *)
(*   SpecSrm       srm gen_records (activityio/srm/_reading.py): the       *)
(*                 blocks and markers of the preamble and the chunk loop.  *)
(***************************************************************************)
EXTENDS Integers, Sequences, FiniteSets, TLC

\* ---------------------------------------------------------------- bounds
\* messages read from one file
MaxMsgs == 3

\* messages read from one file when gen_records is the consumer
MaxRecordMsgs == 5

\* blocks and markers of an SRM file, chunks of a block, marker indices
MaxBlocks == 3
MaxChunks == 2
MaxMarkers == 2
MaxIndex == 3

\* ------------------------------------------------------ program constants
\* read_file_header reads 12 bytes
FileHeaderLen == 12
\* the loop of gen_fit_messages leaves 2 bytes (CRC) unread
TrailerSize == 2
\* FitFile.__init__: bytes_left starts at 0
InitialBytesLeft == 0

\* ----------------------------------------------------------------- values
NoneV == [t |-> "none"]
IntV(n) == [t |-> "int", i |-> n]
BytesV(b) == [t |-> "bytes", b |-> b]
StrV(s) == [t |-> "str", s |-> s]
\* an int of a 32-bit base type, hi * 65536 + lo with lo in 0..65535 (hi is
\* negative for a negative int)
WideV(hi, lo) == [t |-> "int", hi |-> hi, lo |-> lo]

RECURSIVE Gcd(_, _)
Gcd(a, b) == IF b = 0 THEN a ELSE Gcd(b, a % b)

Abs(n) == IF n < 0 THEN 0 - n ELSE n

\* the float num/den, reduced (den > 0)
FloatV(num, den) ==
    LET g == Gcd(Abs(num), den)
    IN [t |-> "float", num |-> num \div g, den |-> den \div g]

\* --------------------------------------------------------------- bit ops
Pow2(n) == 2 ^ n
\* (x >> n) & (2^w - 1)
Bits(x, n, w) == (x \div Pow2(n)) % Pow2(w)

\* ------------------------------------------------------------ base types
\* BaseType(name, identifier, fmt, parse); size = struct.calcsize(fmt).
\* kind/signed/sentinel spell out fmt and the parse lambda.
BT(name, id, size, signed, sentinel) ==
    [name |-> name, identifier |-> id, size |-> size, kind |-> "int",
     signed |-> signed, sentinel |-> sentinel]

\* a 32-bit integer type; its invalid value is held in two halves
BT32(name, id, signed, sentinel_hi, sentinel_lo) ==
    [name |-> name, identifier |-> id, size |-> 4, kind |-> "wide",
     signed |-> signed, sentinel |-> WideV(sentinel_hi, sentinel_lo)]

BASE_TYPE_BYTE == BT("byte", 13, 1, FALSE, 255)

BASE_TYPE_STRING ==
    [name |-> "string", identifier |-> 7, size |-> 1, kind |-> "str",
     signed |-> FALSE, sentinel |-> 0]

\* the codes of BASE_TYPES that the model holds (8- and 16-bit integers,
\* string, byte); files with a 32-bit or float field are not among the inputs
BaseTypeCodes == {0, 1, 2, 131, 132, 7, 10, 139, 13}

\* the codes of the 32-bit integer types of BASE_TYPES
WideTypeCodes == {133, 134, 140}

\* BASE_TYPES[code], for a code in BaseTypeCodes or WideTypeCodes
BaseTypeOf(code) ==
    CASE code = 0   -> BT("enum", 0, 1, FALSE, 255)
      [] code = 1   -> BT("sint8", 1, 1, TRUE, 127)
      [] code = 2   -> BT("uint8", 2, 1, FALSE, 255)
      [] code = 131 -> BT("sint16", 131, 2, TRUE, 32767)
      [] code = 132 -> BT("uint16", 132, 2, FALSE, 65535)
      [] code = 133 -> BT32("sint32", 133, TRUE, 32767, 65535)
      [] code = 134 -> BT32("uint32", 134, FALSE, 65535, 65535)
      [] code = 7   -> BASE_TYPE_STRING
      [] code = 10  -> BT("uint8z", 10, 1, FALSE, 0)
      [] code = 139 -> BT("uint16z", 139, 2, FALSE, 0)
      [] code = 140 -> BT32("uint32z", 140, FALSE, 0, 0)
      [] code = 13  -> BASE_TYPE_BYTE

\* mutant: a code that is not registered is taken for uint8z
BaseTypesGetZ(code) ==
    IF code \in BaseTypeCodes THEN BaseTypeOf(code) ELSE BaseTypeOf(10)

\* BASE_TYPES.get(base_type_num, BASE_TYPE_BYTE)
BaseTypesGet(code) ==
    IF code \in BaseTypeCodes THEN BaseTypeOf(code) ELSE BASE_TYPE_BYTE

\* BASE_TYPES_BY_NAME.get(name, BASE_TYPE_BYTE)
BaseTypesByNameGet(name) ==
    IF \E c \in BaseTypeCodes : BaseTypeOf(c).name = name
    THEN BaseTypeOf(CHOOSE c \in BaseTypeCodes : BaseTypeOf(c).name = name)
    ELSE BASE_TYPE_BYTE

\* x.split(b'\x00')[0]
RECURSIVE UpToNul(_)
UpToNul(b) ==
    IF b = <<>> \/ Head(b) = 0 THEN <<>> ELSE <<Head(b)>> \o UpToNul(Tail(b))

\* mutant: parse gives every value back
ParseKeepsAll(bt, x) == x

\* base_type.parse(value): None for the type's invalid value
Parse(bt, x) ==
    IF bt.kind = "str"
    THEN IF UpToNul(x.b) = <<>> THEN NoneV ELSE BytesV(UpToNul(x.b))
    ELSE IF bt.kind = "wide"
         THEN IF x = bt.sentinel THEN NoneV ELSE x
         ELSE IF x.i = bt.sentinel THEN NoneV ELSE x

\* the integer held by the bytes b in the byte order endian ("<" or ">")
RECURSIVE LittleEndian(_)
LittleEndian(b) ==
    IF b = <<>> THEN 0 ELSE Head(b) + 256 * LittleEndian(Tail(b))

RECURSIVE Reverse(_)
Reverse(s) == IF s = <<>> THEN <<>> ELSE Reverse(Tail(s)) \o <<Head(s)>>

\* mutant: the bytes are always read little-endian
UnsignedLittle(b, endian) == LittleEndian(b)

\* struct.unpack of an unsigned format with the byte order endian
UnsignedOf(b, endian) ==
    IF endian = "<" THEN LittleEndian(b) ELSE LittleEndian(Reverse(b))

\* two's complement of an unsigned value of `size` bytes
SignedOf(u, size) ==
    IF u >= Pow2(8 * size - 1) THEN u - Pow2(8 * size) ELSE u

\* ------------------------------------------------- the catalog (_profile)
\* A dict of the catalog: `keys` are the keys it holds; a key it does not
\* hold has the default of the .get() that reads it.
\* mutant: a miss gives an entry that has units
DictWithUnits ==
    [keys |-> {"units"}, field_name |-> "unknown", scale |-> 1, offset |-> 0,
     units |-> "?", subfields |-> {}]

EMPTY_DICT ==
    [keys |-> {}, field_name |-> "unknown", scale |-> 1, offset |-> 0,
     units |-> "", subfields |-> {}]

\* one subfield of a dynamic field
Subfield(name, ref_name, ref_values, units, type) ==
    [field_name |-> name, ref_field_name |-> ref_name,
     ref_field_value |-> ref_values, units |-> units, field_type |-> type]

\* GLOBAL_MESG_NUMS.get(global_mesg_num, 'unknown')
GlobalMesgNumsGet(n) ==
    CASE n = 0  -> "file_id"
      [] n = 19 -> "lap"
      [] n = 20 -> "record"
      [] OTHER  -> "unknown"

\* MESSAGE_TYPES.get(name, EMPTY_DICT).get(def_num, EMPTY_DICT)
MessageTypesGet(name, def_num) ==
    CASE name = "record" /\ def_num = 0 ->
            [keys |-> {"field_name", "scale", "offset", "units"},
             field_name |-> "altitude", scale |-> 5, offset |-> 500,
             units |-> "m", subfields |-> {}]
      [] name = "record" /\ def_num = 3 ->
            [keys |-> {"field_name", "units"},
             field_name |-> "heart_rate", scale |-> 1, offset |-> 0,
             units |-> "bpm", subfields |-> {}]
      [] name = "file_id" /\ def_num = 1 ->
            [keys |-> {"field_name"},
             field_name |-> "manufacturer", scale |-> 1, offset |-> 0,
             units |-> "", subfields |-> {}]
      [] name = "file_id" /\ def_num = 2 ->
            [keys |-> {"field_name", "subfields"},
             field_name |-> "product", scale |-> 1, offset |-> 0,
             units |-> "",
             subfields |->
               {Subfield("garmin_product", "manufacturer",
                         {"garmin", "dynastream"}, "", "uint16"),
                Subfield("dynastream_product", "manufacturer",
                         {"dynastream"}, "", "uint16")}]
      [] name = "file_id" /\ def_num = 4 ->
            [keys |-> {"field_name", "subfields"},
             field_name |-> "number", scale |-> 1, offset |-> 0,
             units |-> "",
             subfields |->
               {Subfield("garmin_number", "manufacturer",
                         {"garmin"}, "", "uint8"),
                Subfield("typed_number", "type", {"activity"}, "", "uint8")}]
      [] OTHER -> EMPTY_DICT

\* the names that are keys of TYPES_INFO
TypesInfoNames == {"manufacturer"}

\* TYPES_INFO[name].get(code, code)
TypesInfoGet(name, code) ==
    CASE name = "manufacturer" /\ code = 1  -> StrV("garmin")
      [] name = "manufacturer" /\ code = 15 -> StrV("dynastream")
      [] OTHER -> IntV(code)

\* -------------------------------------------------------- message headers
\* NormalHeader.__init__
NormalHeader(header_byte) ==
    [cls |-> IF Bits(header_byte, 6, 1) = 1
             THEN "DefinitionMessage" ELSE "DataMessage",
     local_message_type |-> Bits(header_byte, 0, 4),
     time_offset |-> NoneV,
     compressed |-> FALSE]

\* mutant: the local message type is taken from bits 0-3, as in a normal
\* header
CompressedSlotLowBits(header_byte) ==
    [cls |-> "DataMessage",
     local_message_type |-> Bits(header_byte, 0, 4),
     time_offset |-> IntV(Bits(header_byte, 0, 5)),
     compressed |-> TRUE]

\* CompressedTimestampHeader.__init__
CompressedTimestampHeader(header_byte) ==
    [cls |-> "DataMessage",
     local_message_type |-> Bits(header_byte, 5, 2),
     time_offset |-> IntV(Bits(header_byte, 0, 5)),
     compressed |-> TRUE]

\* read_fit_message: the header class chosen by bit 7
MessageHeader(header_byte) ==
    IF Bits(header_byte, 7, 1) = 1
    THEN CompressedTimestampHeader(header_byte)
    ELSE NormalHeader(header_byte)

\* ------------------------------------------------------ field definitions
\* FieldDefinition.__init__ on the 3 bytes <<def_num, size, base_type_num>>
FieldDefinition(bytes3, message_name, endian) ==
    LET data == MessageTypesGet(message_name, bytes3[1])
    IN [size |-> bytes3[2],
        base_type |-> BaseTypesGet(bytes3[3]),
        data |-> data,
        is_dynamic |-> "subfields" \in data.keys,
        name |-> data.field_name,
        endian |-> endian]

\* FieldDefinition.n_bytes
NBytes(fd) == fd.size \div fd.base_type.size

\* value, *ignore = unpack(self.fmt, raw); self.base_type.parse(value)
\* An error record stands for the exception unpack or the assignment raises.
UnpackParse(fd, raw) ==
    IF fd.base_type.kind = "str"
    THEN Parse(fd.base_type, BytesV(raw))
    ELSE IF NBytes(fd) * fd.base_type.size # Len(raw)
         THEN [t |-> "error", e |-> "struct.error"]
         ELSE IF NBytes(fd) = 0
              THEN [t |-> "error", e |-> "ValueError"]
              ELSE LET first == SubSeq(raw, 1, fd.base_type.size)
                       u == UnsignedOf(first, fd.endian)
                   IN Parse(fd.base_type,
                            IntV(IF fd.base_type.signed
                                 THEN SignedOf(u, fd.base_type.size)
                                 ELSE u))

\* FieldDefinition.read(fitfile) on the bytes raw = fitfile.read(self.size)
ReadFromFile(fd, raw) ==
    IF fd.is_dynamic THEN BytesV(raw) ELSE UnpackParse(fd, raw)

\* FieldDefinition.read(raw=raw)
ReadFromRaw(fd, raw) == UnpackParse(fd, raw)

IsError(v) == v.t = "error"

\* ------------------------------------------------------------- messages
\* DefinitionMessage.__init__ on the body read after the header byte:
\* reserved and architecture bytes, 2 bytes of global message number, the
\* field count and 3 bytes for each field.
DefinitionMessage(header, body) ==
    LET endian == IF body.architecture # 0 THEN ">" ELSE "<"
        global_mesg_num == UnsignedOf(body.global_bytes, endian)
        name == GlobalMesgNumsGet(global_mesg_num)
    IN [header |-> header,
        name |-> name,
        field_defs |-> [i \in 1..Len(body.fields) |->
                          FieldDefinition(body.fields[i], name, endian)]]

\* bytes of a definition message after its header byte
DefinitionBodyLen(body) == 2 + 3 + 3 * Len(body.fields)

\* [field.read(fitfile) for field in field_defs]: the values read, up to and
\* including the first one that raises
RECURSIVE ReadFields(_, _, _)
ReadFields(field_defs, raws, i) ==
    IF i > Len(field_defs) THEN <<>>
    ELSE LET v == ReadFromFile(field_defs[i], raws[i])
         IN IF IsError(v) THEN <<v>>
            ELSE <<v>> \o ReadFields(field_defs, raws, i + 1)

\* mutant: only the first field is counted
SizeOfFirst(field_defs, n) == IF n = 0 THEN 0 ELSE field_defs[1].size

\* the bytes that reading the first n fields takes from the file
RECURSIVE SumSizes(_, _)
SumSizes(field_defs, n) ==
    IF n = 0 THEN 0 ELSE field_defs[n].size + SumSizes(field_defs, n - 1)

\* valid = [i for i, val in enumerate(field_values) if val is not None]
RECURSIVE Valid(_, _)
Valid(field_values, i) ==
    IF i > Len(field_values) THEN <<>>
    ELSE (IF field_values[i] # NoneV THEN <<i>> ELSE <<>>)
         \o Valid(field_values, i + 1)

\* DataMessage.__init__ once the definition was found and every field read.
\* field_defs holds references: positions in the field list of definition
\* object `def` (the FieldDefinition objects are shared with the definition).
DataMessage(header, def, def_message, field_values) ==
    LET valid == Valid(field_values, 1)
    IN [cls |-> "DataMessage",
        header |-> header,
        def |-> def,
        name |-> def_message.name,
        field_defs |-> valid,
        field_values |-> [j \in 1..Len(valid) |-> field_values[valid[j]]]]

\* the DefinitionMessage object as an item of the yielded sequence
YieldedDefinition(header, def, def_message) ==
    [cls |-> "DefinitionMessage",
     header |-> header,
     def |-> def,
     name |-> def_message.name,
     field_defs |-> <<>>,
     field_values |-> <<>>]

\* mutant: the definition is not saved
StoreNothing(local_messages, local_message_type, def) == local_messages

\* mutant: a slot keeps its first definition
StoreIfAbsent(local_messages, local_message_type, def) ==
    IF local_messages[local_message_type] = 0
    THEN [local_messages EXCEPT ![local_message_type] = def]
    ELSE local_messages

\* fitfile.local_messages[header.local_message_type] = self
StoreLocalMessage(local_messages, local_message_type, def) ==
    [local_messages EXCEPT ![local_message_type] = def]

\* ---------------------------------------------------------------- decode
\* mutant: the offset is subtracted before the division
ApplyOffsetThenScale(field_def, field_value) ==
    LET scale == IF "scale" \in field_def.data.keys
                 THEN field_def.data.scale ELSE 1
        offset == IF "offset" \in field_def.data.keys
                  THEN field_def.data.offset ELSE 0
    IN FloatV(field_value.i - offset, scale)

\* apply_scale_offset
ApplyScaleOffset(field_def, field_value) ==
    LET scale == IF "scale" \in field_def.data.keys
                 THEN field_def.data.scale ELSE 1
        offset == IF "offset" \in field_def.data.keys
                  THEN field_def.data.offset ELSE 0
    IN FloatV(field_value.i - offset * scale, scale)

\* mutant: a numeric code is never replaced by its label; scale and offset
\* are applied to it
ExtractUnlabelled(field_def, field_value) ==
    [name |-> field_def.name,
     value |-> IF field_value.t = "bytes" THEN field_value
               ELSE ApplyScaleOffset(field_def, field_value),
     units |-> IF "units" \in field_def.data.keys
               THEN field_def.data.units ELSE ""]

\* DataMessage._extract
Extract(field_def, field_value) ==
    [name |-> field_def.name,
     value |-> IF field_value.t = "bytes" THEN field_value
               ELSE IF field_def.name \in TypesInfoNames
                    THEN TypesInfoGet(field_def.name, field_value.i)
                    ELSE ApplyScaleOffset(field_def, field_value),
     units |-> IF "units" \in field_def.data.keys
               THEN field_def.data.units ELSE ""]

\* is_dynamic(field_def, field_value) with a value that is not None
IsDynamic(field_def, field_value) ==
    field_def.is_dynamic /\ field_value.t = "bytes"

\* ref_value in subfield['ref_field_value'] (a set of str)
InRefValues(ref_value, subfield) ==
    ref_value.t = "str" /\ ref_value.s \in subfield.ref_field_value

\* field_def_names.index(name): 0 stands for the ValueError
RECURSIVE IndexOf(_, _, _)
IndexOf(names, name, i) ==
    IF i > Len(names) THEN 0
    ELSE IF names[i] = name THEN i ELSE IndexOf(names, name, i + 1)

\* BASE_TYPES_BY_NAME.get(new_name, BASE_TYPE_BYTE) of _resolve_subfields
NewBaseType(subfield_match) == BaseTypesByNameGet(subfield_match.field_name)

\* the loop of DataMessage._resolve_subfields from position i on.
\* st: names/values/units are the three lists, bad is bad_messages, fdefs
\* is the field list of the message's definition object (update() writes
\* to it), exc the exception raised ("" for none).
RECURSIVE ResolveLoop(_, _, _, _)
ResolveLoop(message, field_def_names, st, i) ==
    IF i > Len(message.field_defs) \/ st.exc # "" THEN st
    ELSE
      LET field_def == st.fdefs[message.field_defs[i]]
          raw == st.values[i]
      IN IF ~IsDynamic(field_def, raw)
         THEN ResolveLoop(message, field_def_names, st, i + 1)
         ELSE
           LET subfields == field_def.data.subfields
               ref_names == {subf.ref_field_name : subf \in subfields}
           IN IF Cardinality(ref_names) # 1
              THEN [st EXCEPT !.exc = "ValueError"]
              ELSE
                LET ref_field_name == CHOOSE n \in ref_names : TRUE
                    ref_index == IndexOf(field_def_names, ref_field_name, 1)
                IN IF ref_index = 0
                   THEN ResolveLoop(message, field_def_names,
                                    [st EXCEPT !.bad = @ \cup {i}], i + 1)
                   ELSE
                     LET ref_value == st.values[ref_index]
                         matches == {subf \in subfields :
                                       InRefValues(ref_value, subf)}
                     IN IF Cardinality(matches) # 1
                        THEN ResolveLoop(message, field_def_names,
                                         [st EXCEPT !.bad = @ \cup {i}], i + 1)
                        ELSE
                          LET subfield_match == CHOOSE subf \in matches : TRUE
                              new_name == subfield_match.field_name
                              new_def == [field_def EXCEPT
                                            !.name = new_name,
                                            !.base_type =
                                               NewBaseType(subfield_match)]
                              fdefs == [st.fdefs EXCEPT
                                          ![message.field_defs[i]] = new_def]
                              value == ReadFromRaw(new_def, raw.b)
                          IN IF IsError(value)
                             THEN [st EXCEPT !.fdefs = fdefs, !.exc = value.e]
                             ELSE ResolveLoop(message, field_def_names,
                                    [st EXCEPT
                                       !.fdefs = fdefs,
                                       !.names[i] = new_name,
                                       !.values[i] = value,
                                       !.units[i] = subfield_match.units],
                                    i + 1)

\* mutant: bad_messages is ignored
KeepAll(n, bad, i) == [j \in 1..n |-> j]

\* positions 1..n that are not in bad, in order
RECURSIVE NotIn(_, _, _)
NotIn(n, bad, i) ==
    IF i > n THEN <<>>
    ELSE (IF i \in bad THEN <<>> ELSE <<i>>) \o NotIn(n, bad, i + 1)

\* DataMessage.decode() on the field list fdefs of the message's definition
\* object.  status "returned": fields is the list of (name, value, units)
\* and kept the positions of the message's fields they come from;
\* status "raised": exc is the exception.  fdefs is the field list after
\* the call.
Decode(message, fdefs0) ==
    LET n == Len(message.field_defs)
        first_parse == [j \in 1..n |->
                          Extract(fdefs0[message.field_defs[j]],
                                  message.field_values[j])]
        has_subfields == \E j \in 1..n : fdefs0[message.field_defs[j]].is_dynamic
    IN IF ~has_subfields
       THEN [status |-> "returned", fields |-> first_parse,
             kept |-> [j \in 1..n |-> j], exc |-> "", fdefs |-> fdefs0]
       ELSE
         LET field_def_names ==
                 [j \in 1..n |-> fdefs0[message.field_defs[j]].name]
             st0 == [names |-> [j \in 1..n |-> first_parse[j].name],
                     values |-> [j \in 1..n |-> first_parse[j].value],
                     units |-> [j \in 1..n |-> first_parse[j].units],
                     bad |-> {}, fdefs |-> fdefs0, exc |-> ""]
             st == ResolveLoop(message, field_def_names, st0, 1)
             kept == NotIn(n, st.bad, 1)
         IN IF st.exc # ""
            THEN [status |-> "raised", fields |-> <<>>, kept |-> <<>>,
                  exc |-> st.exc, fdefs |-> st.fdefs]
            ELSE [status |-> "returned",
                  fields |-> [k \in 1..Len(kept) |->
                                [name |-> st.names[kept[k]],
                                 value |-> st.values[kept[k]],
                                 units |-> st.units[kept[k]]]],
                  kept |-> kept, exc |-> "", fdefs |-> st.fdefs]

\* ---------------------------------------------------------------- inputs
\* byte 0 of the file
HeaderSizes == {11, 12, 13, 14}
\* bytes 8..11 of the file
Magics == {".FIT", "SRM6"}

\* bytes 4..7 of the file: the payload size.  0, 2: no message; 3: one
\* message; 17, 18, 20: definitions and data messages that can end 2
\* bytes before the end of the payload
PayloadSizes == {0, 2, 3, 17, 18, 20}

\* the first 12 bytes of the file (version bytes left out)
FileHeaders ==
    [header_size : HeaderSizes, magic : Magics, data_size : PayloadSizes]

\* message header bytes: definition headers of local types 0 and 1, data
\* headers of local types 0 and 1, a compressed-timestamp header of local
\* type 1 (time offset 3)
HeaderBytes == {0, 1, 64, 65, 163}

Body(architecture, global_bytes, fields) ==
    [architecture |-> architecture, global_bytes |-> global_bytes,
     fields |-> fields]

\* bodies of definition messages; a field is <<def_num, size, base type>>
DefBodies ==
    { Body(0, <<20, 0>>, <<>>),
      Body(0, <<20, 0>>, << <<0, 2, 132>> >>),
      Body(0, <<20, 0>>, << <<0, 2, 132>>, <<3, 1, 2>> >>),
      Body(1, <<0, 20>>, << <<0, 2, 132>> >>),
      Body(0, <<0, 0>>, << <<1, 1, 2>>, <<2, 2, 132>> >>),
      Body(0, <<0, 0>>, << <<2, 2, 132>>, <<4, 1, 2>> >>),
      Body(0, <<0, 20>>, << <<7, 1, 99>> >>),
      Body(0, <<20, 0>>, << <<3, 0, 2>> >>),
      Body(0, <<20, 0>>, << <<0, 1, 132>> >>),
      Body(0, <<20, 0>>, << <<7, 1, 2>> >>) }

\* bodies of the definition messages of the files given to gen_records: a
\* lap and a file_id without fields, a record with a heart_rate
RecordBodies ==
    { Body(0, <<19, 0>>, <<>>),
      Body(0, <<0, 0>>, <<>>),
      Body(0, <<20, 0>>, << <<3, 1, 2>> >>) }

NoBody == Body(0, <<>>, <<>>)

\* the bytes of one field of a data message
RawChoices ==
    { <<>>, <<1>>, <<15>>, <<100>>, <<255>>,
      <<100, 0>>, <<0, 1>>, <<255, 0>>, <<255, 255>> }

\* the bytes of the fields of a data message under a definition
RawsFor(field_defs) ==
    { raws \in [1..Len(field_defs) -> RawChoices] :
        \A i \in 1..Len(field_defs) : Len(raws[i]) = field_defs[i].size }

\* ----------------------------------------------------------------- state
VARIABLES
    header,          \* the file's first 12 bytes
    pc,              \* gen_fit_messages: "start", "loop", "done", "failed",
                     \* "abandoned" (closed by the consumer)
    error,           \* the exception that ended the generator, or "none"
    bytes_left,      \* FitFile.bytes_left
    pos,             \* offset of the reader in the file
    local_messages,  \* FitFile.local_messages: local type -> definition
                     \* object (0 for no entry)
    defs,            \* the DefinitionMessage objects made so far
    stream,          \* the messages of the file read so far
    yielded,         \* the items gen_fit_messages has yielded
    decoded,         \* the last result of decode() for each yielded item
    reader_closed,   \* reader.close() was called
    peer,            \* another decode session: the one that runs beside this
                     \* one, or the one that ran before it
    file,            \* the message bytes of the file that an earlier session
                     \* over the same file has read
    call,            \* the last call of a pure function: its input and result
    mode,            \* "one" session, a session run "again" over the same
                     \* file, "both" sessions side by side, or a session
                     \* whose consumer is gen_records ("records")
    lap,             \* gen_records: lap
    records,         \* the records gen_records has yielded
    taken,           \* the messages gen_records has taken from
                     \* gen_fit_messages
    srm              \* srm gen_records: the preamble of the file and the
                     \* generator's local variables

\* the state of one decode session (a FitFile, its reader and generator)
session_vars == <<header, pc, error, bytes_left, pos, local_messages, defs,
                  stream, yielded, decoded, reader_closed>>

\* what the steps of a session leave alone
aux == <<peer, file, call, mode, lap, records, taken, srm>>

vars == <<header, pc, error, bytes_left, pos, local_messages, defs, stream,
          yielded, decoded, reader_closed, peer, file, call, mode, lap,
          records, taken, srm>>

LocalTypes == 0..15

Undecoded == [status |-> "none", fields |-> <<>>, kept |-> <<>>, exc |-> ""]

\* mutant: the second session goes on where the reader of the first stopped
ResumeOffset(previous) == previous

\* open(file_path, 'rb'): the reader starts at offset 0
StartOffset(previous) == 0

\* FitFile.__init__: every FitFile has a slot table of its own
NoLocalMessages == [k \in LocalTypes |-> 0]

\* a session before its first step: open_fit / FitFile.__init__
Fresh(h) ==
    [header |-> h, pc |-> "start", error |-> "none",
     bytes_left |-> InitialBytesLeft, pos |-> StartOffset(0),
     local_messages |-> NoLocalMessages, defs |-> <<>>, stream |-> <<>>,
     yielded |-> <<>>, decoded |-> <<>>, reader_closed |-> FALSE]

\* the session held by the variables
Session ==
    [header |-> header, pc |-> pc, error |-> error,
     bytes_left |-> bytes_left, pos |-> pos,
     local_messages |-> local_messages, defs |-> defs, stream |-> stream,
     yielded |-> yielded, decoded |-> decoded,
     reader_closed |-> reader_closed]

\* the variables hold session s in the next state
Resume(s) ==
    /\ header' = s.header
    /\ pc' = s.pc
    /\ error' = s.error
    /\ bytes_left' = s.bytes_left
    /\ pos' = s.pos
    /\ local_messages' = s.local_messages
    /\ defs' = s.defs
    /\ stream' = s.stream
    /\ yielded' = s.yielded
    /\ decoded' = s.decoded
    /\ reader_closed' = s.reader_closed

\* no pure function was called
NoCall == [fn |-> "none"]

\* the variables hold session s
Holds(s) ==
    /\ header = s.header
    /\ pc = s.pc
    /\ error = s.error
    /\ bytes_left = s.bytes_left
    /\ pos = s.pos
    /\ local_messages = s.local_messages
    /\ defs = s.defs
    /\ stream = s.stream
    /\ yielded = s.yielded
    /\ decoded = s.decoded
    /\ reader_closed = s.reader_closed

\* no SRM file is read
NoSrm == [pc |-> "none"]

\* gen_records before its first step: lap = 1
NoRecords ==
    /\ lap = 1
    /\ records = <<>>
    /\ taken = 0

\* one session over one file
Init ==
    /\ \E h \in FileHeaders : Holds(Fresh(h))
    /\ peer = Fresh(header)
    /\ file = <<>>
    /\ call = NoCall
    /\ mode = "one"
    /\ NoRecords
    /\ srm = NoSrm

\* mutant: the magic is not checked
MagicUnchecked(h) == FALSE

\* header_data[8:12] != b'.FIT'
BadMagic(h) == h.magic # ".FIT"

\* mutant: only a single extra byte is irregular
IrregularOnlyOne(h) == h.header_size - FileHeaderLen = 1

\* extra_header = header_size - 12; the header is irregular
IrregularHeaderSize(h) ==
    LET extra_header == h.header_size - FileHeaderLen
    IN extra_header # 0 /\ extra_header < 2

\* fitfile.skip_bytes(extra_header): the bytes skipped
ExtraHeader(h) == h.header_size - FileHeaderLen

\* mutant: the payload size is added to what the header reads left
BudgetCharged(left, h) == left - FileHeaderLen - ExtraHeader(h) + h.data_size

\* fitfile.bytes_left = data_size
PayloadBudget(left, h) == h.data_size

\* read_file_header
ReadFileHeader ==
    /\ pc = "start"
    /\ IF BadMagic(header)
       THEN /\ pc' = "failed"
            /\ error' = "InvalidFileError"
            /\ bytes_left' = bytes_left - FileHeaderLen
            /\ pos' = pos + FileHeaderLen
       ELSE IF IrregularHeaderSize(header)
            THEN /\ pc' = "failed"
                 /\ error' = "FileHeaderError"
                 /\ bytes_left' = bytes_left - FileHeaderLen
                 /\ pos' = pos + FileHeaderLen
            ELSE /\ pc' = "loop"
                 /\ error' = "none"
                 /\ bytes_left' = PayloadBudget(bytes_left, header)
                 /\ pos' = pos + FileHeaderLen + ExtraHeader(header)
    /\ UNCHANGED <<header, local_messages, defs, stream, yielded, decoded,
                   reader_closed>>
    /\ UNCHANGED aux

\* mutant: the loop goes on while any byte is left
MoreMessagesWhileAny == bytes_left > 0

\* mutant: the loop stops one byte early
MoreMessagesOffByOne == bytes_left > TrailerSize + 1

\* while fitfile.bytes_left > 2
MoreMessages == bytes_left > TrailerSize

\* mutant: definition messages are not yielded
GenYieldDataOnly(items, message) ==
    IF message.cls = "DataMessage" THEN Append(items, message) ELSE items

\* mutant: a data message without valid fields is not yielded
GenYieldNonEmpty(items, message) ==
    IF message.cls = "DataMessage" /\ message.field_defs = <<>>
    THEN items ELSE Append(items, message)

\* yield read_fit_message(fitfile)
GenYield(items, message) == Append(items, message)

\* decoded, extended to the items yielded
DecodedFor(items) ==
    [i \in 1..Len(items) |->
        IF i <= Len(decoded) THEN decoded[i] ELSE Undecoded]

\* the messages read so far, by both sessions when two run side by side
MessagesRead ==
    Len(stream) + (IF mode = "both" THEN Len(peer.stream) ELSE 0)

\* the messages that may be read from one file
MessageLimit == IF mode = "records" THEN MaxRecordMsgs ELSE MaxMsgs

\* the bodies of the definition messages of the files
BodiesRead == IF mode = "records" THEN RecordBodies ELSE DefBodies

StreamEntry(header_byte, body, raws) ==
    [header_byte |-> header_byte, body |-> body, raws |-> raws]

RECURSIVE Concat(_)
Concat(seqs) == IF seqs = <<>> THEN <<>> ELSE Head(seqs) \o Concat(Tail(seqs))

\* the bytes of a message in the file: the header byte, then for a
\* definition the reserved and architecture bytes, the global message
\* number, the field count and 3 bytes for each field, for a data message
\* the bytes of its fields
Flat(entry) ==
    <<entry.header_byte>>
    \o (IF entry.body.global_bytes = <<>> THEN <<>>
        ELSE <<0, entry.body.architecture>> \o entry.body.global_bytes
             \o <<Len(entry.body.fields)>> \o Concat(entry.body.fields))
    \o Concat(entry.raws)

\* the bytes of the messages read
RECURSIVE FlatStream(_)
FlatStream(entries) ==
    IF entries = <<>> THEN <<>>
    ELSE Flat(Head(entries)) \o FlatStream(Tail(entries))

\* reader.read(size) returns the bytes the file holds at the reader's
\* offset: where an earlier session has read the file, the bytes are the
\* ones it read
Agrees(entry) ==
    LET offset == pos - header.header_size
        bytes == Flat(entry)
    IN \A k \in 1..Len(bytes) :
          (offset + k \in 1..Len(file)) => file[offset + k] = bytes[k]

\* read_fit_message, for a header byte of a definition message
ReadDefinitionMessage ==
    /\ pc = "loop"
    /\ MoreMessages
    /\ MessagesRead < MessageLimit
    /\ \E header_byte \in HeaderBytes, body \in BodiesRead :
         LET h == MessageHeader(header_byte)
             def_message == DefinitionMessage(h, body)
             def == Len(defs) + 1
             size == 1 + DefinitionBodyLen(body)
         IN /\ h.cls = "DefinitionMessage"
            /\ Agrees(StreamEntry(header_byte, body, <<>>))
            /\ defs' = Append(defs, def_message)
            /\ local_messages' =
                 StoreLocalMessage(local_messages, h.local_message_type, def)
            /\ yielded' = GenYield(yielded, YieldedDefinition(h, def, def_message))
            /\ decoded' = DecodedFor(yielded')
            /\ stream' = Append(stream, StreamEntry(header_byte, body, <<>>))
            /\ bytes_left' = bytes_left - size
            /\ pos' = pos + size
    /\ UNCHANGED <<header, pc, error, reader_closed>>
    /\ UNCHANGED aux

\* read_fit_message, for a header byte of a data message
ReadDataMessage ==
    /\ pc = "loop"
    /\ MoreMessages
    /\ MessagesRead < MessageLimit
    /\ \E header_byte \in HeaderBytes :
         LET h == MessageHeader(header_byte)
             def == local_messages[h.local_message_type]
         IN /\ h.cls = "DataMessage"
            /\ Agrees(StreamEntry(header_byte, NoBody, <<>>))
            /\ IF def = 0
               THEN /\ pc' = "failed"
                    /\ error' = "MessageHeaderError"
                    /\ stream' = Append(stream,
                                        StreamEntry(header_byte, NoBody, <<>>))
                    /\ bytes_left' = bytes_left - 1
                    /\ pos' = pos + 1
                    /\ UNCHANGED <<yielded, decoded>>
               ELSE \E raws \in RawsFor(defs[def].field_defs) :
                      LET field_defs == defs[def].field_defs
                          field_values == ReadFields(field_defs, raws, 1)
                          n == Len(field_values)
                          raised == n > 0 /\ IsError(field_values[n])
                          size == 1 + SumSizes(field_defs, n)
                      IN /\ Agrees(StreamEntry(header_byte, NoBody, raws))
                         /\ stream' = Append(stream,
                                        StreamEntry(header_byte, NoBody, raws))
                         /\ bytes_left' = bytes_left - size
                         /\ pos' = pos + size
                         /\ IF raised
                            THEN /\ pc' = "failed"
                                 /\ error' = field_values[n].e
                                 /\ UNCHANGED <<yielded, decoded>>
                            ELSE /\ yielded' = GenYield(yielded,
                                       DataMessage(h, def, defs[def],
                                                   field_values))
                                 /\ decoded' = DecodedFor(yielded')
                                 /\ UNCHANGED <<pc, error>>
    /\ UNCHANGED <<header, local_messages, defs, reader_closed>>
    /\ UNCHANGED aux

\* the loop of gen_fit_messages ends; open_fit closes the reader
Exhaust ==
    /\ pc = "loop"
    /\ ~MoreMessages
    /\ pc' = "done"
    /\ reader_closed' = TRUE
    /\ UNCHANGED <<header, error, bytes_left, pos, local_messages, defs,
                   stream, yielded, decoded>>
    /\ UNCHANGED aux

\* the consumer closes the generator while it is suspended at its yield:
\* GeneratorExit is raised there and leaves the with block of
\* gen_fit_messages through open_fit's yield
Abandon ==
    /\ pc = "loop"
    /\ yielded # <<>>
    /\ pc' = "abandoned"
    /\ UNCHANGED <<header, error, bytes_left, pos, local_messages, defs,
                   stream, yielded, decoded, reader_closed>>
    /\ UNCHANGED aux

\* the consumer calls decode() on a data message it was given
DecodeMessage ==
    /\ \E i \in 1..Len(yielded) :
         /\ yielded[i].cls = "DataMessage"
         /\ LET def == yielded[i].def
                r == Decode(yielded[i], defs[def].field_defs)
            IN /\ decoded' = [decoded EXCEPT
                                ![i] = [status |-> r.status,
                                        fields |-> r.fields,
                                        kept |-> r.kept,
                                        exc |-> r.exc]]
               /\ defs' = [defs EXCEPT ![def].field_defs = r.fdefs]
    /\ UNCHANGED <<header, pc, error, bytes_left, pos, local_messages,
                   stream, yielded, reader_closed>>
    /\ UNCHANGED aux

Next ==
    \/ ReadFileHeader
    \/ ReadDefinitionMessage
    \/ ReadDataMessage
    \/ Exhaust
    \/ Abandon
    \/ DecodeMessage

Spec == Init /\ [][Next]_vars

\* --------------------------------------------- the consumer iterates
\* payload sizes that MaxMsgs messages always use up: the first message
\* read is a definition (at least 6 bytes) or raises, every other one
\* takes at least 1 byte
LivePayloadSizes == {0, 2, 3, 9, 10}

LiveHeaders ==
    [header_size : HeaderSizes, magic : Magics, data_size : LivePayloadSizes]

LiveInit ==
    /\ \E h \in LiveHeaders : Holds(Fresh(h))
    /\ peer = Fresh(header)
    /\ file = <<>>
    /\ call = NoCall
    /\ mode = "one"
    /\ NoRecords
    /\ srm = NoSrm

\* next(generator): the generator runs to its next yield, to its end or to
\* an exception
Iterate ==
    \/ ReadFileHeader
    \/ ReadDefinitionMessage
    \/ ReadDataMessage
    \/ Exhaust

\* a consumer that does not close the generator keeps asking for the next
\* item (for message in gen_fit_messages(path))
LiveSpec == LiveInit /\ [][Next]_vars /\ WF_vars(Iterate)

\* ------------------------------------------------ fit gen_records
\* mutant: every data message is kept
MessageFilterAnyData(message) == message.cls = "DataMessage"

\* message_filter with keep=('record', 'lap')
MessageFilter(message) ==
    message.cls = "DataMessage" /\ message.name \in {"record", "lap"}

\* make_key
MakeKey(field) ==
    IF field.units # "" THEN field.name \o "_" \o field.units ELSE field.name

\* {make_key(field): field[1] for field in decoded}: the dict as the set of
\* its items; of two fields with one key the later one stays.  (No field of
\* the catalog has the key timestamp_s, so nothing is popped.)
MessageDict(fields) ==
    {[key |-> MakeKey(fields[k]), value |-> fields[k].value] :
        k \in {k \in 1..Len(fields) :
                 \A later \in (k + 1)..Len(fields) :
                    MakeKey(fields[later]) # MakeKey(fields[k])}}

\* message['lap'] = lap
SetLap(message_dict, n) ==
    {item \in message_dict : item.key # "lap"}
    \cup {[key |-> "lap", value |-> IntV(n)]}

\* gen_records takes the next message from gen_fit_messages: one that
\* message_filter drops is passed over; another is decoded by
\* format_message and then counted as a lap or yielded as a record with
\* the lap it falls in.  `source` is the place of the message among those
\* taken (not a part of the record).  An exception of decode() ends
\* gen_records, and with it the generator it iterates.
FormatMessage ==
    /\ taken < Len(yielded)
    /\ taken' = taken + 1
    /\ LET message == yielded[taken + 1]
       IN IF ~MessageFilter(message)
          THEN UNCHANGED <<lap, records, decoded, defs, pc, error>>
          ELSE LET r == Decode(message, defs[message.def].field_defs)
               IN /\ decoded' = [decoded EXCEPT
                                   ![taken + 1] = [status |-> r.status,
                                                   fields |-> r.fields,
                                                   kept |-> r.kept,
                                                   exc |-> r.exc]]
                  /\ defs' = [defs EXCEPT ![message.def].field_defs = r.fdefs]
                  /\ IF r.status = "raised"
                     THEN /\ pc' = "abandoned"
                          /\ error' = r.exc
                          /\ UNCHANGED <<lap, records>>
                     ELSE /\ UNCHANGED <<pc, error>>
                          /\ IF message.name = "lap"
                             THEN /\ lap' = lap + 1
                                  /\ UNCHANGED records
                             ELSE /\ records' =
                                       Append(records,
                                              [items |-> SetLap(MessageDict(r.fields), lap),
                                               source |-> taken + 1])
                                  /\ UNCHANGED lap
    /\ UNCHANGED <<header, bytes_left, pos, local_messages, stream, yielded,
                   reader_closed>>
    /\ UNCHANGED <<peer, file, call, mode, srm>>

\* next(messages): gen_fit_messages runs when gen_records has dealt with
\* every message it was given
PullMessage ==
    /\ taken = Len(yielded)
    /\ Iterate

NextRecords ==
    \/ PullMessage
    \/ FormatMessage

\* the files given to gen_records: 12-byte headers, payloads of 12 and 22
\* bytes
RecordHeaders ==
    [header_size : {FileHeaderLen}, magic : {".FIT"}, data_size : {12, 22}]

InitRecords ==
    /\ \E h \in RecordHeaders : Holds(Fresh(h))
    /\ peer = Fresh(header)
    /\ file = <<>>
    /\ call = NoCall
    /\ mode = "records"
    /\ NoRecords
    /\ srm = NoSrm

SpecRecords == InitRecords /\ [][NextRecords]_vars

\* ------------------------------------------------ srm gen_records
\* The chunks' values and the timestamps are left out: the loop reads one
\* chunk for each index and neither decides what the loop does.

\* SRMMarker._fixup on the start and end read from the file
Fixup(start, end) ==
    LET s == (IF start > 1 THEN start ELSE 1) - 1
        e == (IF end > 1 THEN end ELSE 1) - 1
    IN [start |-> IF s <= e THEN s ELSE e, end |-> IF s <= e THEN e ELSE s]

\* itertools.accumulate: the sum of the first k chunk counts
RECURSIVE Accumulate(_, _)
Accumulate(chunk_counts, k) ==
    IF k = 0 THEN 0 ELSE chunk_counts[k] + Accumulate(chunk_counts, k - 1)

\* mutant: one chunk more than the blocks hold
DataCountPlusOne(chunk_counts) ==
    Accumulate(chunk_counts, Len(chunk_counts)) + 1

\* preamble.data_count = sum(block.chunk_count for block in blocks)
DataCount(chunk_counts) == Accumulate(chunk_counts, Len(chunk_counts))

\* SRMPreamble.__init__ on the markers' <<start, end>> and the blocks'
\* chunk counts read from the file
SRMPreamble(marker_values, chunk_counts) ==
    [markers |-> [k \in 1..Len(marker_values) |->
                     Fixup(marker_values[k][1], marker_values[k][2])],
     blocks |-> [k \in 1..Len(chunk_counts) |->
                    [chunk_count |-> chunk_counts[k],
                     end |-> Accumulate(chunk_counts, k)]],
     data_count |-> DataCount(chunk_counts)]

\* a local variable that nothing was assigned to
Unbound == [unbound |-> TRUE]

\* list.pop() of a list that is not empty: the last item and the rest
Last(list) == list[Len(list)]
Front(list) == SubSeq(list, 1, Len(list) - 1)

\* the preambles of the files
Preambles ==
    {SRMPreamble(marker_values, chunk_counts) :
        marker_values \in UNION {[1..n -> (0..MaxIndex) \X (0..MaxIndex)] :
                                   n \in 0..MaxMarkers},
        chunk_counts \in UNION {[1..n -> 0..MaxChunks] : n \in 0..MaxBlocks}}

\* gen_records up to its loop: the preamble is read, both lists reversed,
\* the first marker (if there is one) and the first block popped
SrmStart ==
    /\ srm.pc = "start"
    /\ LET markers == Reverse(srm.preamble.markers)
           blocks == Reverse(srm.preamble.blocks)
       IN srm' = IF blocks = <<>>
                 THEN [srm EXCEPT !.pc = "raised", !.error = "IndexError"]
                 ELSE [srm EXCEPT
                         !.pc = "loop",
                         !.markers = IF markers = <<>> THEN markers
                                     ELSE Front(markers),
                         !.current_marker = IF markers = <<>> THEN Unbound
                                            ELSE Last(markers),
                         !.blocks = Front(blocks),
                         !.current_block = Last(blocks),
                         !.lap = 1]
    /\ UNCHANGED session_vars
    /\ UNCHANGED <<peer, file, call, mode, lap, records, taken>>

\* one pass of the loop for i in range(preamble.data_count), to its yield
\* or to the exception of a pop() of an empty list
SrmChunk ==
    /\ srm.pc = "loop"
    /\ srm.i < srm.preamble.data_count
    /\ LET switch == srm.i = srm.current_block.end
           step == srm.markers # <<>> /\ srm.i = srm.current_marker.end
       IN srm' = IF switch /\ srm.blocks = <<>>
                 THEN [srm EXCEPT !.pc = "raised", !.error = "IndexError"]
                 ELSE [srm EXCEPT
                         !.blocks = IF switch THEN Front(@) ELSE @,
                         !.current_block = IF switch THEN Last(srm.blocks)
                                           ELSE @,
                         !.lap = IF step THEN @ + 1 ELSE @,
                         !.markers = IF step THEN Front(@) ELSE @,
                         !.current_marker = IF step THEN Last(srm.markers)
                                            ELSE @,
                         !.chunks = Append(@, [i |-> srm.i, lap |-> IF step THEN srm.lap + 1 ELSE srm.lap]),
                         !.i = @ + 1]
    /\ UNCHANGED session_vars
    /\ UNCHANGED <<peer, file, call, mode, lap, records, taken>>

\* the loop has run data_count times; open_srm closes the reader
SrmEnd ==
    /\ srm.pc = "loop"
    /\ srm.i >= srm.preamble.data_count
    /\ srm' = [srm EXCEPT !.pc = "done"]
    /\ UNCHANGED session_vars
    /\ UNCHANGED <<peer, file, call, mode, lap, records, taken>>

NextSrm ==
    \/ SrmStart
    \/ SrmChunk
    \/ SrmEnd

\* gen_records before its first step, for each preamble
InitSrm ==
    /\ Holds(Fresh([header_size |-> FileHeaderLen, magic |-> "SRM6",
                    data_size |-> 0]))
    /\ peer = Fresh(header)
    /\ file = <<>>
    /\ call = NoCall
    /\ mode = "one"
    /\ NoRecords
    /\ \E preamble \in Preambles :
          srm = [pc |-> "start", error |-> "none", preamble |-> preamble,
                 markers |-> <<>>, blocks |-> <<>>,
                 current_marker |-> Unbound, current_block |-> Unbound,
                 lap |-> 1, i |-> 0, chunks |-> <<>>]

SpecSrm == InitSrm /\ [][NextSrm]_vars

\* ------------------------------------------------- pure functions
\* the integer base types of BASE_TYPES
IntegerTypeCodes == (BaseTypeCodes \ {7}) \cup WideTypeCodes

\* halves of 32-bit values: around 0, around the sign bit, all ones
WideHighs(signed) ==
    IF signed THEN {-32768, -1, 0, 1, 32766, 32767}
    ELSE {0, 1, 32767, 32768, 65534, 65535}

WideLows == {0, 1, 32767, 65534, 65535}

\* 16-bit values: around 0, around 255, around the sign bit, all ones
Shorts(signed) ==
    IF signed THEN {-32768, -32767, -256, -1, 0, 1, 127, 255, 32766, 32767}
    ELSE {0, 1, 127, 255, 256, 32766, 32767, 32768, 65534, 65535}

\* the ints struct.unpack gives for a base type: every value of an 8-bit
\* type, the values above of a 16- or 32-bit type
ValuesOf(bt) ==
    IF bt.kind = "wide"
    THEN {WideV(hi, lo) : hi \in WideHighs(bt.signed), lo \in WideLows}
    ELSE IF bt.size = 1
         THEN {IntV(n) : n \in IF bt.signed THEN -128..127 ELSE 0..255}
         ELSE {IntV(n) : n \in Shorts(bt.signed)}

\* base_type.parse(value) is called for an integer base type
ParseValue ==
    /\ \E code \in IntegerTypeCodes :
         \E x \in ValuesOf(BaseTypeOf(code)) :
            call' = [fn |-> "parse", type |-> BaseTypeOf(code).name,
                     arg |-> x, result |-> Parse(BaseTypeOf(code), x)]
    /\ UNCHANGED session_vars
    /\ UNCHANGED <<peer, file, mode, lap, records, taken, srm>>

\* read_fit_message makes the header object of a header byte
ReadHeaderByte ==
    /\ \E header_byte \in 0..255 :
         call' = [fn |-> "header", type |-> "", arg |-> IntV(header_byte),
                  result |-> MessageHeader(header_byte)]
    /\ UNCHANGED session_vars
    /\ UNCHANGED <<peer, file, mode, lap, records, taken, srm>>

NextPure ==
    \/ ParseValue
    \/ ReadHeaderByte

InitPure ==
    /\ Holds(Fresh([header_size |-> FileHeaderLen, magic |-> ".FIT",
                    data_size |-> 0]))
    /\ peer = Fresh(header)
    /\ file = <<>>
    /\ call = NoCall
    /\ mode = "one"
    /\ NoRecords
    /\ srm = NoSrm

SpecPure == InitPure /\ [][NextPure]_vars

\* ------------------------------------------- two sessions, one file
\* the first session over the file has ended; gen_fit_messages is called
\* again with the same file_path: a new reader and a new FitFile
NewSession ==
    /\ mode = "again"
    /\ pc \in {"done", "failed"}
    /\ peer.pc = "start"
    /\ peer' = Session
    /\ file' = FlatStream(stream)
    /\ Resume([Fresh(header) EXCEPT !.pos = StartOffset(pos)])
    /\ UNCHANGED <<call, mode, lap, records, taken, srm>>

NextAgain ==
    \/ ReadFileHeader
    \/ ReadDefinitionMessage
    \/ ReadDataMessage
    \/ Exhaust
    \/ Abandon
    \/ DecodeMessage
    \/ NewSession

\* ------------------------------------------ two sessions, two files
\* mutant: the slot table is an attribute of the class, shared by all
\* FitFile objects
SharedSlots(own, other) == other

\* self.local_messages: the slot table of a FitFile is its own, not the one
\* of the FitFile that ran the step before
OwnSlots(own, other) == own

\* the next step is taken by the other session (each session is a
\* generator of its consumer; their steps interleave message by message)
Switch ==
    /\ mode = "both"
    /\ peer' = Session
    /\ Resume([peer EXCEPT
                 !.local_messages = OwnSlots(@, local_messages)])
    /\ UNCHANGED <<file, call, mode, lap, records, taken, srm>>

NextSessions ==
    \/ ReadFileHeader
    \/ ReadDefinitionMessage
    \/ ReadDataMessage
    \/ Exhaust
    \/ Abandon
    \/ DecodeMessage
    \/ Switch

\* the files decoded twice: 12-byte headers; a payload of 18 bytes, one of
\* 3 bytes, and a file that is no FIT file
AgainHeaders ==
    {h \in FileHeaders :
        /\ h.header_size = FileHeaderLen
        /\ \/ h.magic = ".FIT" /\ h.data_size \in {3, 18}
           \/ h.magic # ".FIT" /\ h.data_size = 0}

\* two sessions over two files (the same file twice included)
InitSessions ==
    /\ \E h \in AgainHeaders : Holds(Fresh(h))
    /\ \E h \in AgainHeaders : peer = Fresh(h)
    /\ file = <<>>
    /\ call = NoCall
    /\ mode = "both"
    /\ NoRecords
    /\ srm = NoSrm

SpecSessions == InitSessions /\ [][NextSessions]_vars

InitAgain ==
    /\ \E h \in AgainHeaders : Holds(Fresh(h))
    /\ peer = Fresh(header)
    /\ file = <<>>
    /\ call = NoCall
    /\ mode = "again"
    /\ NoRecords
    /\ srm = NoSrm

SpecAgain == InitAgain /\ [][NextAgain]_vars

\* ------------------------------------------ single calls of functions
\* Each behaviour of SpecCalls is one call of a function whose result
\* depends on its arguments only; `call` holds the arguments and the result.

\* ------------------------------------------------------ version info
\* '{:.0f}'.format(n / d) for ints n >= 0, d > 0 and a quotient that is
\* exact in binary where it is a tie: the nearest integer, a tie going to
\* the even one
FormatRounded(n, d) ==
    LET q == n \div d
        r == n % d
    IN IF 2 * r < d THEN q
       ELSE IF 2 * r > d THEN q + 1
            ELSE IF q % 2 = 0 THEN q ELSE q + 1

\* float('{}.{}'.format(major, minor)) for minor in 0..99: the digits of
\* minor are decimals
VersionFloat(major, minor) ==
    IF minor < 10 THEN FloatV(10 * major + minor, 10)
    ELSE FloatV(100 * major + minor, 100)

\* FitFile.set_version_info
SetVersionInfo(prot, prof) ==
    [protocol_version |-> VersionFloat(Bits(prot, 4, 4), prot % 16),
     profile_version |-> VersionFloat(FormatRounded(prof, 100), prof % 100)]

\* the protocol bytes of file headers
ProtocolBytes == 0..255

\* the 16-bit profile values of file headers: around a whole version, around
\* the half between two majors (odd and even), the ends of the range
ProfileValues == {0, 9, 10, 49, 50, 51, 99, 100, 149, 150, 151, 1050, 2132,
                  65535}

\* read_file_header hands the two version fields of the header to
\* set_version_info
ReadVersionInfo ==
    /\ call = NoCall
    /\ \E prot \in ProtocolBytes, prof \in ProfileValues :
         call' = [fn |-> "version", type |-> "",
                  arg |-> [prot |-> prot, prof |-> prof],
                  result |-> SetVersionInfo(prot, prof)]
    /\ UNCHANGED session_vars
    /\ UNCHANGED <<peer, file, mode, lap, records, taken, srm>>

\* ------------------------------------------------- FieldDefinition.read
\* elements of an array field
MaxElements == 2

\* the integer base types of one and of two bytes
NarrowTypeCodes == BaseTypeCodes \ {7}

\* bytes of a field: zero, one, the sign bit's neighbour, all ones
ByteChoices == {0, 1, 127, 255}

\* FieldDefinition.read(raw=raw) on a field of 1..MaxElements elements of
\* an integer base type (heart_rate: not dynamic)
ReadField ==
    /\ call = NoCall
    /\ \E code \in NarrowTypeCodes, k \in 1..MaxElements, endian \in {"<", ">"} :
         LET size == k * BaseTypeOf(code).size
             fd == FieldDefinition(<<3, size, code>>, "record", endian)
         IN \E raw \in [1..size -> ByteChoices] :
               call' = [fn |-> "read", type |-> fd.base_type.name,
                        arg |-> [fd |-> fd, raw |-> raw],
                        result |-> ReadFromRaw(fd, raw)]
    /\ UNCHANGED session_vars
    /\ UNCHANGED <<peer, file, mode, lap, records, taken, srm>>

\* ---------------------------------------------------- DataMessage._extract
\* the catalog entries of the fields: <<message name, field number>>
CatalogFields ==
    {<<"file_id", 1>>, <<"file_id", 2>>, <<"record", 0>>, <<"record", 3>>,
     <<"unknown", 7>>}

\* the values of the fields of a DataMessage: ints that parse() let through
\* and bytes (of a dynamic field or of a string)
FieldValues ==
    {IntV(n) : n \in {0, 1, 2, 15, 100, 254}}
    \cup {BytesV(b) : b \in {<<1>>, <<15>>, <<100, 0>>}}

\* decode() calls _extract on a field definition and the value read for it
ExtractField ==
    /\ call = NoCall
    /\ \E f \in CatalogFields, code \in {2, 7, 132}, endian \in {"<", ">"} :
         LET fd == FieldDefinition(<<f[2], BaseTypesGet(code).size, code>>,
                                   f[1], endian)
         IN \E v \in FieldValues :
               call' = [fn |-> "extract", type |-> fd.base_type.name,
                        arg |-> [fd |-> fd, value |-> v],
                        result |-> Extract(fd, v)]
    /\ UNCHANGED session_vars
    /\ UNCHANGED <<peer, file, mode, lap, records, taken, srm>>

NextCalls ==
    \/ ReadVersionInfo
    \/ ReadField
    \/ ExtractField

SpecCalls == InitPure /\ [][NextCalls]_vars

\* ================================================================ claims
\* the entry of the stream is a definition message
IsDefEntry(e) == MessageHeader(e.header_byte).cls = "DefinitionMessage"

\* the local message type of the entry's header
SlotOf(e) == MessageHeader(e.header_byte).local_message_type

\* the definitions for the slot of entry i that precede it in the stream
DefsBefore(i) ==
    {j \in 1..(i - 1) : IsDefEntry(stream[j]) /\ SlotOf(stream[j]) = SlotOf(stream[i])}

Max(S) == CHOOSE x \in S : \A y \in S : y <= x

\* the data entries of the stream whose slot no earlier entry defines
Undefined ==
    {i \in 1..Len(stream) : ~IsDefEntry(stream[i]) /\ DefsBefore(i) = {}}

\* C1, state part: a data header for a slot that no earlier message of the
\* stream defined raises MessageHeaderError, nothing is yielded for it and
\* it is the last message the generator reads; MessageHeaderError has no
\* other cause.
C1_State ==
    /\ \A i \in Undefined :
          /\ i = Len(stream)
          /\ error = "MessageHeaderError"
          /\ pc = "failed"
          /\ Len(yielded) = i - 1
    /\ error = "MessageHeaderError" => Len(stream) \in Undefined

\* C1: a data message whose local slot has no definition raises
\* MessageHeaderError; nothing is yielded for it, no message is read or
\* yielded afterwards, and what was yielded before stays as it was.
C1_MissingDefinitionHalts ==
    /\ []C1_State
    /\ [][error' = "MessageHeaderError" => yielded' = yielded]_vars

\* C1 witness: the error after a data message was yielded
C1_Witness ==
    /\ error = "MessageHeaderError"
    /\ \E i \in 1..Len(yielded) : yielded[i].cls = "DataMessage"

\* the name a definition body gives its message
NameOfBody(body) ==
    GlobalMesgNumsGet(UnsignedOf(body.global_bytes,
                                 IF body.architecture # 0 THEN ">" ELSE "<"))

\* C2: every yielded data message has the local message type of its own
\* header and the message name and field layout (count and sizes of the
\* fields read) of the latest definition that precedes it for that slot.
C2_LatestDefinition ==
    \A i \in 1..Len(yielded) :
       yielded[i].cls = "DataMessage" =>
          /\ i <= Len(stream)
          /\ yielded[i].header = MessageHeader(stream[i].header_byte)
          /\ DefsBefore(i) # {}
          /\ LET body == stream[Max(DefsBefore(i))].body
             IN /\ yielded[i].name = NameOfBody(body)
                /\ Len(stream[i].raws) = Len(body.fields)
                /\ \A m \in 1..Len(body.fields) :
                      Len(stream[i].raws[m]) = body.fields[m][2]

\* C2 witness: a data message with a compressed-timestamp header whose slot
\* was defined twice, with different names and layouts
C2_Witness ==
    \E i \in 1..Len(yielded) :
       /\ yielded[i].cls = "DataMessage"
       /\ yielded[i].header.compressed
       /\ Cardinality(DefsBefore(i)) = 2
       /\ \E j \in DefsBefore(i) :
             /\ NameOfBody(stream[j].body) # yielded[i].name
             /\ Len(stream[j].body.fields) # Len(stream[i].raws)

\* the headers of the data messages among the items / the stream entries
RECURSIVE DataHeadersOfItems(_)
DataHeadersOfItems(items) ==
    IF items = <<>> THEN <<>>
    ELSE (IF Head(items).cls = "DataMessage"
          THEN <<Head(items).header>> ELSE <<>>)
         \o DataHeadersOfItems(Tail(items))

RECURSIVE DataHeadersOfStream(_)
DataHeadersOfStream(entries) ==
    IF entries = <<>> THEN <<>>
    ELSE (IF IsDefEntry(Head(entries))
          THEN <<>> ELSE <<MessageHeader(Head(entries).header_byte)>>)
         \o DataHeadersOfStream(Tail(entries))

\* the data messages yielded are the data messages of the stream read so
\* far, in order, and a generator that ended left no message byte unread
AllDataYielded ==
    /\ DataHeadersOfItems(yielded) = DataHeadersOfStream(stream)
    /\ pc = "done" => bytes_left <= TrailerSize

\* C3 as stated: whenever every data message's slot is defined beforehand,
\* the data messages yielded are those of the payload, in order.
C3_Original == Undefined = {} => AllDataYielded

\* a non-string field whose size is not a positive multiple of the width
\* of its base type
BadFieldSize(field) ==
    LET bt == BaseTypesGet(field[3])
    IN bt.kind # "str" /\ (field[2] = 0 \/ field[2] % bt.size # 0)

\* the definitions of the stream give every field a size that unpacks
SizesUnpack ==
    \A j \in 1..Len(stream) :
       IsDefEntry(stream[j]) =>
          \A m \in 1..Len(stream[j].body.fields) :
             ~BadFieldSize(stream[j].body.fields[m])

\* C3 (amended): whenever every data message's slot is defined beforehand
\* and every non-string field has a size that is a positive multiple of
\* its base type's width, the data messages yielded are those of the
\* payload, each once and in order, and none is left unread at the end.
C3_AllDataInOrder == (Undefined = {} /\ SizesUnpack) => AllDataYielded

\* C3 witness: a file read to its end, two data messages yielded
C3_Witness ==
    /\ pc = "done"
    /\ bytes_left = TrailerSize
    /\ Undefined = {} /\ SizesUnpack
    /\ Len(DataHeadersOfItems(yielded)) = 2
    /\ yielded[2].header # yielded[3].header

\* C4 as stated: every item of the yielded sequence is a DataMessage.
C4_Original ==
    \A i \in 1..Len(yielded) : yielded[i].cls = "DataMessage"

\* C4 (amended): gen_fit_messages yields every message it reads: a
\* definition message is stored in the slot table and yielded as a
\* DefinitionMessage, a data message is yielded as a DataMessage.
C4_YieldsEveryMessage ==
    /\ Len(yielded) = Len(stream) - (IF pc = "failed" /\ stream # <<>> THEN 1 ELSE 0)
    /\ \A i \in 1..Len(yielded) :
          /\ yielded[i].cls = IF IsDefEntry(stream[i])
                              THEN "DefinitionMessage" ELSE "DataMessage"
          /\ IsDefEntry(stream[i]) =>
                /\ yielded[i].def \in 1..Len(defs)
                /\ yielded[i].name = NameOfBody(stream[i].body)

\* C4 witness: a definition message among the yielded items, stored in its
\* slot
C4_Witness ==
    \E i \in 1..Len(yielded) :
       /\ yielded[i].cls = "DefinitionMessage"
       /\ local_messages[yielded[i].header.local_message_type] = yielded[i].def

\* C5: a file whose bytes 8-11 are not '.FIT' fails with InvalidFileError
\* in read_file_header: only the 12 header bytes were read, the slot table
\* is empty and no message is yielded.
C5_BadMagic ==
    /\ (pc # "start" /\ header.magic # ".FIT") =>
          /\ error = "InvalidFileError"
          /\ pc = "failed"
          /\ pos = FileHeaderLen
          /\ stream = <<>>
          /\ yielded = <<>>
          /\ \A k \in LocalTypes : local_messages[k] = 0
    /\ error = "InvalidFileError" => header.magic # ".FIT"

\* C5 witness: the magic is wrong and the header size is irregular too
C5_Witness ==
    /\ error = "InvalidFileError"
    /\ header.header_size = 13

\* C6: with a valid magic the header is accepted exactly when header_size
\* - 12 is 0 or at least 2; otherwise FileHeaderError.  An accepted header
\* leaves the reader at offset header_size before the first message.
C6_HeaderSize ==
    (pc # "start" /\ header.magic = ".FIT") =>
       LET extra == header.header_size - 12
       IN IF extra = 0 \/ extra >= 2
          THEN /\ error # "FileHeaderError"
               /\ pos - (header.data_size - bytes_left) = header.header_size
          ELSE /\ error = "FileHeaderError"
               /\ pc = "failed"
               /\ stream = <<>>

\* C6 witness: header_size 14, two bytes skipped
C6_Witness ==
    /\ pc = "loop"
    /\ header.header_size = 14
    /\ stream = <<>>
    /\ pos = 14

\* ------------------------------------------------------ decode() claims
\* the FieldDefinition object behind position j of yielded item i
FieldDefAt(i, j) == defs[yielded[i].def].field_defs[yielded[i].field_defs[j]]

\* the position in decoded[i].fields of the message's field j (0: none)
PlaceOf(i, j) ==
    IF \E k \in 1..Len(decoded[i].kept) : decoded[i].kept[k] = j
    THEN CHOOSE k \in 1..Len(decoded[i].kept) : decoded[i].kept[k] = j
    ELSE 0

\* C7 as stated: no (name, value, units) triple of a decode() result has an
\* absent value, dynamic fields re-parsed in the second pass included.
C7_NoAbsentValue ==
    \A i \in 1..Len(decoded) :
       decoded[i].status = "returned" =>
          \A k \in 1..Len(decoded[i].fields) :
             decoded[i].fields[k].value # NoneV

\* C8: a valid numeric field that is not dynamic and whose name is not an
\* enumerated catalog name decodes to raw / scale - offset, with the
\* catalog's scale (default 1) and offset (default 0); the little-endian
\* uint16 altitude (scale 5, offset 500) with bytes 0x64 0x00 decodes to
\* -480.
C8_ScaleOffset ==
    \A i \in 1..Len(decoded) :
       decoded[i].status = "returned" =>
          \A j \in 1..Len(yielded[i].field_defs) :
             LET fd == FieldDefAt(i, j)
                 raw == yielded[i].field_values[j]
                 scale == IF "scale" \in fd.data.keys THEN fd.data.scale ELSE 1
                 offset == IF "offset" \in fd.data.keys THEN fd.data.offset ELSE 0
             IN (~fd.is_dynamic /\ raw.t = "int" /\ fd.name \notin TypesInfoNames) =>
                   /\ PlaceOf(i, j) # 0
                   /\ LET v == decoded[i].fields[PlaceOf(i, j)].value
                      IN /\ v.t = "float"
                         /\ v.den > 0
                         /\ v.num * scale = (raw.i - offset * scale) * v.den
                         /\ (/\ fd.name = "altitude"
                             /\ fd.base_type.name = "uint16"
                             /\ fd.endian = "<"
                             /\ stream[i].raws[yielded[i].field_defs[j]] = <<100, 0>>)
                            => v = [t |-> "float", num |-> -480, den |-> 1]

\* C8 witness: the altitude bytes 0x64 0x00 were decoded to -480
C8_Witness ==
    \E i \in 1..Len(decoded) :
       /\ decoded[i].status = "returned"
       /\ yielded[i].name = "record"
       /\ Len(stream[i].raws) = 1
       /\ stream[i].raws[1] = <<100, 0>>
       /\ decoded[i].fields =
             << [name |-> "altitude",
                 value |-> [t |-> "float", num |-> -480, den |-> 1],
                 units |-> "m"] >>

\* the catalog names of the fields of yielded item i
CatalogNames(i) ==
    [j \in 1..Len(yielded[i].field_defs) |-> FieldDefAt(i, j).data.field_name]

\* field j of item i is a dynamic field whose subfields name one reference
\* field
HasOneReference(i, j) ==
    /\ FieldDefAt(i, j).is_dynamic
    /\ Cardinality({subf.ref_field_name :
                      subf \in FieldDefAt(i, j).data.subfields}) = 1

\* the reference field name of such a field
ReferenceName(i, j) ==
    CHOOSE n \in {subf.ref_field_name : subf \in FieldDefAt(i, j).data.subfields} : TRUE

\* the subfields of field j whose accepted set holds the decoded value of
\* the reference field; none when the message has no field of that name
Matching(i, j) ==
    LET r == IndexOf(CatalogNames(i), ReferenceName(i, j), 1)
    IN IF r = 0 THEN {}
       ELSE {subf \in FieldDefAt(i, j).data.subfields :
               InRefValues(Extract(FieldDefAt(i, r),
                                   yielded[i].field_values[r]).value, subf)}

\* the bytes raw read as one value of the base type named type_name
Reparsed(type_name, raw, endian) ==
    LET bt == BaseTypesByNameGet(type_name)
        u == UnsignedOf(raw, endian)
    IN Parse(bt, IntV(IF bt.signed THEN SignedOf(u, bt.size) ELSE u))

\* C9 as stated: a dynamic field whose reference value is in exactly one
\* subfield's accepted set is output with that subfield's name and units
\* and with its raw bytes read under the subfield's own base type.
C9_ResolvedUnderSubfieldType ==
    \A i \in 1..Len(decoded) :
       decoded[i].status = "returned" =>
          \A j \in 1..Len(yielded[i].field_defs) :
             (HasOneReference(i, j) /\ Cardinality(Matching(i, j)) = 1) =>
                LET subf == CHOOSE x \in Matching(i, j) : TRUE
                    fd == FieldDefAt(i, j)
                    want == Reparsed(subf.field_type,
                                     yielded[i].field_values[j].b, fd.endian)
                IN want # NoneV =>
                      /\ PlaceOf(i, j) # 0
                      /\ decoded[i].fields[PlaceOf(i, j)] =
                            [name |-> subf.field_name, value |-> want,
                             units |-> subf.units]

\* s without its element at position j
RemoveAt(s, j) ==
    [k \in 1..(Len(s) - 1) |-> IF k < j THEN s[k] ELSE s[k + 1]]

\* yielded item i without its field j
WithoutField(i, j) ==
    [yielded[i] EXCEPT !.field_defs = RemoveAt(@, j),
                       !.field_values = RemoveAt(@, j)]

C11_DecodeNeverRaises ==
    \A i \in 1..Len(decoded) : decoded[i].status # "raised"

\* C12 as stated: on every exit path of a decode session (the sequence is
\* exhausted, a fatal error is raised while the header or a message is
\* read, the consumer closes the generator) the file handle is closed.
C12_ClosedOnEveryExit ==
    pc \in {"done", "failed", "abandoned"} => reader_closed

\* a second session over the file is running or has run
SecondSession == peer.pc # "start"

RECURSIVE Alone(_, _)
Alone(h, entries) ==
    IF entries = <<>>
    THEN [error |-> "none", bytes_left |-> h.data_size,
          local_messages |-> NoLocalMessages, defs |-> <<>>, yielded |-> <<>>]
    ELSE
      LET a == Alone(h, SubSeq(entries, 1, Len(entries) - 1))
          e == entries[Len(entries)]
          hd == MessageHeader(e.header_byte)
          def == a.local_messages[hd.local_message_type]
      IN IF hd.cls = "DefinitionMessage"
         THEN LET d == DefinitionMessage(hd, e.body)
                  id == Len(a.defs) + 1
              IN [a EXCEPT
                    !.bytes_left = @ - (1 + DefinitionBodyLen(e.body)),
                    !.defs = Append(@, d),
                    !.local_messages = [@ EXCEPT ![hd.local_message_type] = id],
                    !.yielded = Append(@, YieldedDefinition(hd, id, d))]
         ELSE IF def = 0
              THEN [a EXCEPT !.error = "MessageHeaderError",
                             !.bytes_left = @ - 1]
              ELSE
                LET fds == a.defs[def].field_defs
                    vals == ReadFields(fds, e.raws, 1)
                    n == Len(vals)
                IN IF n > 0 /\ IsError(vals[n])
                   THEN [a EXCEPT !.error = vals[n].e,
                                  !.bytes_left = @ - (1 + SumSizes(fds, n))]
                   ELSE [a EXCEPT
                           !.bytes_left = @ - (1 + SumSizes(fds, n)),
                           !.yielded = Append(@, DataMessage(hd, def,
                                                  a.defs[def], vals))]

\* session s is in the state that its own file alone gives it
AsAlone(s) ==
    IF s.pc = "start" THEN s = Fresh(s.header)
    ELSE IF s.header.magic # ".FIT"
         THEN /\ s.pc = "failed" /\ s.error = "InvalidFileError"
              /\ s.yielded = <<>> /\ s.local_messages = NoLocalMessages
         ELSE LET a == Alone(s.header, s.stream)
              IN /\ s.local_messages = a.local_messages
                 /\ s.bytes_left = a.bytes_left
                 /\ s.yielded = a.yielded
                 /\ s.error = a.error
                 /\ (s.pc = "failed") = (a.error # "none")

Ended == pc \in {"done", "failed", "abandoned"}

\* C15: the message loop ends.  A message is read only while bytes_left >
\* 2 and reading it lowers bytes_left by at least 1; the generator ends
\* normally only with bytes_left <= 2, a fatal error ends it at once, and
\* a generator that has ended stays ended: it reads and yields nothing
\* more.  With a consumer that keeps iterating, every session ends.
C15_Terminates ==
    /\ [][stream' # stream =>
            /\ pc = "loop"
            /\ bytes_left > TrailerSize
            /\ bytes_left' <= bytes_left - 1
            /\ Len(stream') = Len(stream) + 1]_vars
    /\ [](pc = "done" => (error = "none" /\ bytes_left <= TrailerSize))
    /\ [](pc = "failed" <=> error # "none")
    /\ [][Ended => (pc' = pc /\ stream' = stream /\ yielded' = yielded
                     /\ bytes_left' = bytes_left /\ error' = error)]_vars
    /\ <>Ended

\* C15 witness: the loop ended normally after three messages, the last of
\* which took bytes_left from above 2 to exactly 2
C15_Witness ==
    /\ pc = "done"
    /\ Len(yielded) = 3
    /\ bytes_left = TrailerSize
    /\ header.data_size = 10

\* C16 as stated: bytes_left is never negative, whatever the payload size
\* and the messages read.
C16_NeverNegative == bytes_left >= 0

\* the sum of the encoded sizes of the fields a definition declares
RECURSIVE DeclaredSize(_)
DeclaredSize(field_defs) ==
    IF field_defs = <<>> THEN 0
    ELSE Head(field_defs).size + DeclaredSize(Tail(field_defs))

\* the step yields a data message
DataMessageRead ==
    /\ Len(yielded') = Len(yielded) + 1
    /\ yielded'[Len(yielded')].cls = "DataMessage"

\* a message of the file ends 2 bytes before the end of the payload
EndsAtTrailer ==
    \E k \in 0..Len(stream) :
       Len(FlatStream(SubSeq(stream, 1, k))) = header.data_size - TrailerSize

\* C17: reading a data message takes from the file, and from bytes_left,
\* 1 byte plus the encoded sizes of all the fields of the definition in its
\* slot, whether a field's value is valid, invalid or raw (dynamic); the
\* byte budget is the payload size less the message bytes read; and when
\* the sequence ends normally on a file one of whose messages ends 2 bytes
\* before the end of the payload, the message bytes read are payload_size - 2.
C17_ByteAccounting ==
    /\ [][DataMessageRead =>
            LET m == yielded'[Len(yielded')]
                fds == defs[local_messages[m.header.local_message_type]].field_defs
            IN /\ bytes_left - bytes_left' = 1 + DeclaredSize(fds)
               /\ pos' - pos = 1 + DeclaredSize(fds)]_vars
    /\ [](pc \in {"loop", "done", "abandoned"} =>
             bytes_left = header.data_size - (pos - header.header_size))
    /\ []((pc = "done" /\ EndsAtTrailer) =>
             pos - header.header_size = header.data_size - TrailerSize)

\* C17 witness: a file read to 2 bytes before the end of its payload, with
\* a data message that has an invalid field (left out of the message) and
\* a dynamic field
C17_Witness ==
    /\ pc = "done"
    /\ EndsAtTrailer
    /\ pos - header.header_size = header.data_size - TrailerSize
    /\ \E i \in 1..Len(yielded) :
          /\ yielded[i].cls = "DataMessage"
          /\ Len(yielded[i].field_defs) < Len(stream[i].raws)
          /\ \E j \in 1..Len(yielded[i].field_defs) : FieldDefAt(i, j).is_dynamic

\* the invalid value of each integer base type: all ones for the unsigned
\* types, the largest positive value for the signed ones, 0 for the z types
SentinelOf(type) ==
    CASE type \in {"enum", "uint8", "byte"} -> IntV(255)
      [] type = "sint8"   -> IntV(127)
      [] type = "sint16"  -> IntV(32767)
      [] type = "uint16"  -> IntV(65535)
      [] type = "sint32"  -> WideV(32767, 65535)
      [] type = "uint32"  -> WideV(65535, 65535)
      [] type \in {"uint8z", "uint16z"} -> IntV(0)
      [] type = "uint32z" -> WideV(0, 0)

\* C18: for every integer base type, parse(v) is absent exactly when v is
\* the type's invalid value, and is v for every other value.
C18_ParseSentinel ==
    call.fn = "parse" =>
       /\ call.type \in {"enum", "sint8", "uint8", "sint16", "uint16",
                         "sint32", "uint32", "uint8z", "uint16z", "uint32z",
                         "byte"}
       /\ (call.result = NoneV) <=> (call.arg = SentinelOf(call.type))
       /\ call.arg # SentinelOf(call.type) => call.result = call.arg

\* C18 witness: parse of 0xFFFFFFFF as uint32 is absent
C18_Witness ==
    /\ call.fn = "parse"
    /\ call.type = "uint32"
    /\ call.arg = WideV(65535, 65535)
    /\ call.result = NoneV

\* C19: a header byte b with bit 7 clear gives a normal header: a
\* definition message iff bit 6 is set, else a data message, local slot b
\* mod 16, no time offset; with bit 7 set it gives a compressed-timestamp
\* header: always a data message, local slot in bits 5-6, time offset in
\* bits 0-4.
C19_HeaderByte ==
    call.fn = "header" =>
       LET b == call.arg.i
           r == call.result
       IN IF b < 128
          THEN /\ ~r.compressed
               /\ r.cls = IF (b \div 64) % 2 = 1
                          THEN "DefinitionMessage" ELSE "DataMessage"
               /\ r.local_message_type = b % 16
               /\ r.time_offset = NoneV
          ELSE /\ r.compressed
               /\ r.cls = "DataMessage"
               /\ r.local_message_type = (b \div 32) % 4
               /\ r.local_message_type \in 0..3
               /\ r.time_offset = IntV(b % 32)

\* C19 witness: 0xE3 (bits 7, 6 and 5 set) is a compressed-timestamp header
\* of a data message, slot 3, time offset 3
C19_Witness ==
    /\ call.fn = "header"
    /\ call.arg = IntV(227)
    /\ call.result.cls = "DataMessage"
    /\ call.result.local_message_type = 3
    /\ call.result.time_offset = IntV(3)

\* the int that the first `size` bytes of raw hold, least significant byte
\* first (little) or last
IntIn(little, raw, size, signed) ==
    LET u == IF size = 1 THEN raw[1]
             ELSE IF little THEN raw[1] + 256 * raw[2]
                  ELSE 256 * raw[1] + raw[2]
        limit == IF size = 1 THEN 128 ELSE 32768
    IN IntV(IF signed /\ u >= limit THEN u - 2 * limit ELSE u)

\* the body of the definition message that data entry i of the stream was
\* read under
BodyFor(i) == stream[Max(DefsBefore(i))].body

\* every integer field of every data message read holds its bytes read
\* little-endian (always_little), or in the byte order of the architecture
\* byte of the message's definition: little-endian for 0, big-endian
\* otherwise
FieldsReadAs(always_little) ==
    \A i \in 1..Len(yielded) :
       yielded[i].cls = "DataMessage" =>
          \A j \in 1..Len(yielded[i].field_defs) :
             LET m == yielded[i].field_defs[j]
                 fd == FieldDefAt(i, j)
                 bt == BaseTypesGet(BodyFor(i).fields[m][3])
             IN (~fd.is_dynamic /\ bt.kind = "int") =>
                   yielded[i].field_values[j] =
                      IntIn(always_little \/ BodyFor(i).architecture = 0,
                            stream[i].raws[m], bt.size, bt.signed)

\* C20 as stated: the field values of a data message are read
\* little-endian whether the architecture byte of its definition is 0 or 1.
C20_Original == FieldsReadAs(TRUE)

\* C20 (amended): the architecture byte of a definition message sets the
\* byte order of its global message number and of the multi-byte field
\* values of the data messages read under it: little-endian for 0,
\* big-endian otherwise.
C20_FieldsInDefinitionOrder ==
    /\ FieldsReadAs(FALSE)
    /\ \A i \in 1..Len(yielded) :
          yielded[i].cls = "DataMessage" =>
             LET g == BodyFor(i).global_bytes
             IN yielded[i].name =
                   GlobalMesgNumsGet(IF BodyFor(i).architecture = 0
                                     THEN g[1] + 256 * g[2]
                                     ELSE 256 * g[1] + g[2])

\* C20 witness: under a definition with architecture byte 1 the bytes 0x64
\* 0x00 of the uint16 altitude were read as 25600 and decoded to
\* 25600 / 5 - 500 = 4620
C20_Witness ==
    \E i \in 1..Len(decoded) :
       /\ yielded[i].cls = "DataMessage"
       /\ BodyFor(i).architecture = 1
       /\ stream[i].raws = << <<100, 0>> >>
       /\ yielded[i].field_values = << IntV(25600) >>
       /\ decoded[i].status = "returned"
       /\ decoded[i].fields =
             << [name |-> "altitude",
                 value |-> [t |-> "float", num |-> 4620, den |-> 1],
                 units |-> "m"] >>

\* the DefinitionMessage object as its definition message built it
AsStored(i) ==
    DefinitionMessage(MessageHeader(stream[i].header_byte), stream[i].body)

\* the definition entries of the stream read so far for slot k
DefsOfSlot(k) ==
    {j \in 1..Len(yielded) :
        yielded[j].cls = "DefinitionMessage"
        /\ yielded[j].header.local_message_type = k}

\* C21 as stated: a stored definition is never mutated: every definition
\* object, and so every field definition's name, base type, size, byte
\* order and dynamic flag, stays as its definition message built it,
\* whatever data messages are constructed and decoded under it; a slot
\* holds the latest definition read for it.
C21_StoredDefinitionUnchanged ==
    /\ \A i \in 1..Len(yielded) :
          yielded[i].cls = "DefinitionMessage" =>
             defs[yielded[i].def] = AsStored(i)
    /\ \A k \in LocalTypes :
          local_messages[k] =
             IF DefsOfSlot(k) = {} THEN 0
             ELSE yielded[Max(DefsOfSlot(k))].def

\* C22 as stated: the protocol version is (p >> 4).(p mod 16) and the
\* profile version is (v // 100).(v mod 100), with floor division, for
\* every protocol byte p and every 16-bit profile value v.
C22_VersionDecoding ==
    call.fn = "version" =>
       /\ call.result.protocol_version =
             VersionFloat(call.arg.prot \div 16, call.arg.prot % 16)
       /\ call.result.profile_version =
             VersionFloat(call.arg.prof \div 100, call.arg.prof % 100)

\* element j of the bytes raw of a field of base type bt
ElementOf(bt, raw, j) == SubSeq(raw, (j - 1) * bt.size + 1, j * bt.size)

\* the byte strings of the length of raw that differ from raw in element j
\* and nowhere else
DifferingIn(bt, raw, j) ==
    {other \in [1..Len(raw) -> ByteChoices] :
        /\ ElementOf(bt, other, j) # ElementOf(bt, raw, j)
        /\ \A m \in (1..(Len(raw) \div bt.size)) \ {j} :
              ElementOf(bt, other, m) = ElementOf(bt, raw, m)}

\* C23 as stated: a field of k > 1 elements is unpacked as k values and
\* each of them is checked, so what the field is read as depends on every
\* element: for each element there are bytes, different in that element
\* only, that are read as something else.
C23_EveryElementCounts ==
    (call.fn = "read" /\ NBytes(call.arg.fd) > 1) =>
       \A j \in 1..NBytes(call.arg.fd) :
          \E other \in DifferingIn(call.arg.fd.base_type, call.arg.raw, j) :
             ReadFromRaw(call.arg.fd, other) # call.result

\* the labels of the codes of manufacturer, the enumerated name of the
\* catalog
Labels == [n \in {1, 15} |-> IF n = 1 THEN "garmin" ELSE "dynastream"]

\* C24: in the first pass a field held as raw bytes is passed through
\* unchanged; a numeric field whose name is an enumerated catalog name
\* gets the label of its code, or the code itself (an int, no scale or
\* offset applied) when the code has no label; name and units are the
\* field definition's.
C24_FirstPassLabels ==
    call.fn = "extract" =>
       LET fd == call.arg.fd
           v == call.arg.value
           out == call.result
       IN /\ out.name = fd.name
          /\ v.t = "bytes" => out.value = v
          /\ (v.t = "int" /\ fd.name \in TypesInfoNames) =>
                out.value = IF v.i \in DOMAIN Labels
                            THEN StrV(Labels[v.i]) ELSE v

\* C24 witness: manufacturer code 15 became 'dynastream'
C24_Witness ==
    /\ call.fn = "extract"
    /\ call.arg.fd.name = "manufacturer"
    /\ call.arg.value = IntV(15)
    /\ call.result.value = StrV("dynastream")

\* C24 second case: manufacturer code 100 has no label and stays the int
C24_Unlabelled ==
    /\ call.fn = "extract"
    /\ call.arg.fd.name = "manufacturer"
    /\ call.arg.value = IntV(100)
    /\ call.result.value = IntV(100)

\* the fourteen base-type codes of BASE_TYPES
RegisteredCodes == {0, 1, 2, 131, 132, 133, 134, 7, 136, 137, 10, 139, 140, 13}

\* field m of the definition entry i of the stream has a base-type code
\* that is not registered
UnregisteredField(i, m) ==
    /\ IsDefEntry(stream[i])
    /\ m \in 1..Len(stream[i].body.fields)
    /\ stream[i].body.fields[m][3] \notin RegisteredCodes

\* C25: a field definition with a base-type code that is not registered
\* does not make the definition fail: the definition message is yielded
\* and stored in its slot, the field has the byte base type (width 1,
\* invalid value 0xFF), and every data message read under the definition
\* holds the first byte of the field as its value, or drops the field when
\* that byte is 0xFF.
C25_UnknownBaseType ==
    \A i \in 1..Len(stream) :
       \A m \in 1..Len(stream[i].body.fields) :
          UnregisteredField(i, m) =>
             /\ i <= Len(yielded)
             /\ yielded[i].cls = "DefinitionMessage"
             /\ LET bt == defs[yielded[i].def].field_defs[m].base_type
                IN /\ bt.name = "byte"
                   /\ bt.size = 1
                   /\ bt.kind = "int"
                   /\ ~bt.signed
                   /\ bt.sentinel = 255
             /\ i = Max(DefsOfSlot(SlotOf(stream[i]))) =>
                   local_messages[SlotOf(stream[i])] = yielded[i].def
             /\ \A d \in 1..Len(yielded) :
                   (/\ yielded[d].cls = "DataMessage"
                    /\ DefsBefore(d) # {}
                    /\ Max(DefsBefore(d)) = i
                    /\ stream[i].body.fields[m][2] > 0) =>
                      LET byte == stream[d].raws[m][1]
                          at == {j \in 1..Len(yielded[d].field_defs) :
                                   yielded[d].field_defs[j] = m}
                      IN /\ yielded[d].def = yielded[i].def
                         /\ IF byte = 255 THEN at = {}
                            ELSE \E j \in at :
                                   yielded[d].field_values[j] = IntV(byte)

\* C25 witness: a data message read under a definition whose only field has
\* base-type code 99 was decoded to the byte 100
C25_Witness ==
    \E i \in 1..Len(stream), d \in 1..Len(decoded) :
       /\ UnregisteredField(i, 1)
       /\ stream[i].body.fields[1][3] = 99
       /\ yielded[d].cls = "DataMessage"
       /\ DefsBefore(d) # {}
       /\ Max(DefsBefore(d)) = i
       /\ stream[d].raws = << <<100>> >>
       /\ decoded[d].status = "returned"
       /\ decoded[d].fields =
             << [name |-> "unknown",
                 value |-> [t |-> "float", num |-> 100, den |-> 1],
                 units |-> ""] >>

\* data entry d of the stream was read under a definition, and each of its
\* fields is an integer field that is not dynamic and holds the invalid
\* value of its base type in every element (a definition without fields
\* included)
NothingValid(d) ==
    /\ ~IsDefEntry(stream[d])
    /\ DefsBefore(d) # {}
    /\ Len(stream[d].raws) = Len(BodyFor(d).fields)
    /\ \A m \in 1..Len(BodyFor(d).fields) :
          LET f == BodyFor(d).fields[m]
              bt == BaseTypesGet(f[3])
              raw == stream[d].raws[m]
          IN /\ "subfields" \notin MessageTypesGet(NameOfBody(BodyFor(d)), f[1]).keys
             /\ bt.kind = "int"
             /\ f[2] > 0
             /\ f[2] % bt.size = 0
             /\ \A e \in 1..(f[2] \div bt.size) :
                   IntIn(BodyFor(d).architecture = 0,
                         SubSeq(raw, (e - 1) * bt.size + 1, e * bt.size),
                         bt.size, bt.signed) = IntV(bt.sentinel)

\* C26: a data message none of whose fields is valid, or whose definition
\* has no fields, does not end the generator: it is yielded, without
\* fields; decode() on it returns the empty list and does not raise; the
\* messages read after it are yielded in turn and the fields of the data
\* messages among them are read from their own bytes.
C26_EmptyMessage ==
    \A d \in 1..Len(stream) :
       NothingValid(d) =>
          /\ d <= Len(yielded)
          /\ yielded[d].cls = "DataMessage"
          /\ yielded[d].field_defs = <<>>
          /\ yielded[d].field_values = <<>>
          /\ decoded[d].status # "none" =>
                /\ decoded[d].status = "returned"
                /\ decoded[d].fields = <<>>
          /\ Len(yielded) >= Len(stream) - 1
          /\ \A e \in (d + 1)..Len(yielded) :
                yielded[e].cls = "DataMessage" =>
                   \A j \in 1..Len(yielded[e].field_defs) :
                      LET m == yielded[e].field_defs[j]
                          bt == BaseTypesGet(BodyFor(e).fields[m][3])
                      IN (~FieldDefAt(e, j).is_dynamic /\ bt.kind = "int") =>
                            yielded[e].field_values[j] =
                               IntIn(BodyFor(e).architecture = 0,
                                     stream[e].raws[m], bt.size, bt.signed)

\* C26 witness: an altitude of 0xFFFF and a heart_rate of 0xFF gave a
\* message without fields, decoded to the empty list; the message after it
\* was decoded to a heart_rate
C26_Witness ==
    \E d \in 1..(Len(decoded) - 1) :
       /\ NothingValid(d)
       /\ stream[d].raws = << <<255, 255>>, <<255>> >>
       /\ decoded[d].status = "returned"
       /\ decoded[d].fields = <<>>
       /\ yielded[d + 1].cls = "DataMessage"
       /\ decoded[d + 1].status = "returned"
       /\ \E k \in 1..Len(decoded[d + 1].fields) :
             decoded[d + 1].fields[k].name = "heart_rate"

\* C26 second case: a data message under a definition without fields
C26_NoFields ==
    \E d \in 1..Len(decoded) :
       /\ NothingValid(d)
       /\ BodyFor(d).fields = <<>>
       /\ decoded[d].status = "returned"
       /\ decoded[d].fields = <<>>

\* read_file_header has returned and no message was read yet
HeaderRead == pc = "loop" /\ stream = <<>>

\* C27: when read_file_header has returned, bytes_left is the payload size
\* of the header, whatever the header size (neither the 12 header bytes nor
\* the skipped ones are charged to it), and the reader is at offset
\* header_size.
C27_BudgetIsPayloadSize ==
    HeaderRead =>
       /\ bytes_left = header.data_size
       /\ pos = header.header_size

\* C27 witness: a header of 14 bytes with a payload of 17
C27_Witness ==
    /\ HeaderRead
    /\ header.header_size = 14
    /\ header.data_size = 17
    /\ bytes_left = 17
    /\ pos = 14

\* the messages taken by gen_records that are data messages called name,
\* as the bytes of the stream have it
TakenNamed(name) ==
    {i \in 1..taken :
        /\ ~IsDefEntry(stream[i])
        /\ DefsBefore(i) # {}
        /\ NameOfBody(BodyFor(i)) = name}

\* C28: gen_records yields one record for each 'record' data message, in
\* the order of the stream, and none for a 'lap' message, another data
\* message or a definition message; the lap of a record is 1 + the number
\* of 'lap' data messages before it in the stream, so laps start at 1 and
\* never decrease.
C28_RecordsAndLaps ==
    /\ Len(records) = Cardinality(TakenNamed("record"))
    /\ \A k \in 1..Len(records) :
          /\ records[k].source \in TakenNamed("record")
          /\ Cardinality({i \in TakenNamed("record") : i < records[k].source})
                = k - 1
          /\ \E item \in records[k].items :
                /\ item.key = "lap"
                /\ item.value =
                      IntV(1 + Cardinality({i \in TakenNamed("lap") :
                                              i < records[k].source}))
                /\ item.value.i >= 1
                /\ k > 1 => \E before \in records[k - 1].items :
                               /\ before.key = "lap"
                               /\ before.value.i <= item.value.i
    /\ lap = 1 + Cardinality(TakenNamed("lap"))

\* C28 witness: a record of lap 1, a lap message, a record of lap 2 with
\* heart rate 100
C28_Witness ==
    /\ Len(records) = 2
    /\ [key |-> "lap", value |-> IntV(1)] \in records[1].items
    /\ records[2].items =
          {[key |-> "lap", value |-> IntV(2)],
           [key |-> "heart_rate_bpm",
            value |-> [t |-> "float", num |-> 100, den |-> 1]]}
    /\ \E i \in TakenNamed("lap") :
          records[1].source < i /\ i < records[2].source

\* the global message number of a definition body
GlobalNumberOf(body) ==
    IF body.architecture = 0
    THEN body.global_bytes[1] + 256 * body.global_bytes[2]
    ELSE 256 * body.global_bytes[1] + body.global_bytes[2]

\* the global message numbers of the catalog
KnownMessages == {0, 19, 20}

\* the field numbers the catalog has for a global message number
KnownFields(number) ==
    IF number = 0 THEN {1, 2, 4} ELSE IF number = 20 THEN {0, 3} ELSE {}

\* field m of the definition entry i of the stream is not in the catalog:
\* its message is not, or its field number is not among the message's
Missed(i, m) ==
    /\ IsDefEntry(stream[i])
    /\ m \in 1..Len(stream[i].body.fields)
    /\ \/ GlobalNumberOf(stream[i].body) \notin KnownMessages
       \/ stream[i].body.fields[m][1]
             \notin KnownFields(GlobalNumberOf(stream[i].body))

\* C29: a miss in the catalog does not fail the decode.  A definition with
\* a global message number that the catalog lacks is yielded and stored
\* with the name 'unknown', and none of its fields has a catalog entry; a
\* field whose number the message's map lacks has the name 'unknown', is
\* not dynamic and decodes to value / 1 - 0 with empty units; a data
\* message under such a definition takes exactly the declared sizes of its
\* fields from the file.
C29_CatalogMisses ==
    \A i \in 1..Len(stream) :
       IsDefEntry(stream[i]) =>
          /\ i <= Len(yielded)
          /\ yielded[i].cls = "DefinitionMessage"
          /\ GlobalNumberOf(stream[i].body) \notin KnownMessages =>
                /\ defs[yielded[i].def].name = "unknown"
                /\ yielded[i].name = "unknown"
                /\ i = Max(DefsOfSlot(SlotOf(stream[i]))) =>
                      local_messages[SlotOf(stream[i])] = yielded[i].def
          /\ \A m \in 1..Len(stream[i].body.fields) :
                Missed(i, m) =>
                   LET fd == defs[yielded[i].def].field_defs[m]
                   IN /\ fd.name = "unknown"
                      /\ ~fd.is_dynamic
                      /\ fd.data.keys = {}
                      /\ fd.size = stream[i].body.fields[m][2]
          /\ \A d \in 1..Len(yielded) :
                (/\ yielded[d].cls = "DataMessage"
                 /\ DefsBefore(d) # {}
                 /\ Max(DefsBefore(d)) = i
                 /\ \A m \in 1..Len(stream[i].body.fields) : Missed(i, m)) =>
                   /\ \A m \in 1..Len(stream[i].body.fields) :
                         Len(stream[d].raws[m]) = stream[i].body.fields[m][2]
                   /\ d = Len(stream) =>
                         /\ pos = header.header_size + Len(FlatStream(stream))
                         /\ bytes_left =
                               header.data_size - Len(FlatStream(stream))
                   /\ decoded[d].status # "none" =>
                         /\ decoded[d].status = "returned"
                         /\ Len(decoded[d].fields) = Len(yielded[d].field_defs)
                         /\ \A j \in 1..Len(yielded[d].field_defs) :
                               yielded[d].field_values[j].t = "int" =>
                                  decoded[d].fields[j] =
                                     [name |-> "unknown",
                                      value |-> FloatV(yielded[d].field_values[j].i, 1),
                                      units |-> ""]

\* C29 witness: field 7 of a record, which the catalog lacks, decoded to
\* ('unknown', 100.0, '')
C29_Witness ==
    \E i \in 1..Len(stream), d \in 1..Len(decoded) :
       /\ Missed(i, 1)
       /\ GlobalNumberOf(stream[i].body) = 20
       /\ yielded[d].cls = "DataMessage"
       /\ DefsBefore(d) # {}
       /\ Max(DefsBefore(d)) = i
       /\ stream[d].raws = << <<100>> >>
       /\ decoded[d].fields =
             << [name |-> "unknown",
                 value |-> [t |-> "float", num |-> 100, den |-> 1],
                 units |-> ""] >>

\* C29 second case: a data message of a global message number that the
\* catalog lacks (5120) was decoded
C29_UnknownMessage ==
    \E i \in 1..Len(stream), d \in 1..Len(decoded) :
       /\ Missed(i, 1)
       /\ GlobalNumberOf(stream[i].body) = 5120
       /\ yielded[d].cls = "DataMessage"
       /\ yielded[d].name = "unknown"
       /\ DefsBefore(d) # {}
       /\ Max(DefsBefore(d)) = i
       /\ decoded[d].status = "returned"
       /\ Len(decoded[d].fields) = 1

\* C30: with at least one block in the preamble, whatever the chunk counts
\* of the blocks and the end indices of the markers, the loop of srm
\* gen_records never pops a block or a marker from an empty list (it does
\* not raise), and lap is in 1..max(1, marker_count).
C30_NoPopFromEmpty ==
    (srm.pc # "none" /\ Len(srm.preamble.blocks) >= 1) =>
       /\ srm.pc # "raised"
       /\ srm.lap >= 1
       /\ srm.lap <= (IF Len(srm.preamble.markers) > 1
                      THEN Len(srm.preamble.markers) ELSE 1)
       /\ \A k \in 1..Len(srm.chunks) :
             srm.chunks[k].lap \in 1..srm.lap

\* C30 witness: the loop has ended after it went through all three blocks
\* and both markers
C30_Witness ==
    /\ srm.pc = "done"
    /\ Len(srm.preamble.blocks) = 3
    /\ Len(srm.preamble.markers) = 2
    /\ srm.blocks = <<>>
    /\ srm.markers = <<>>
    /\ srm.lap = 2
    /\ srm.current_block = srm.preamble.blocks[3]

====
